---- MODULE Spec2Model ----
(***************************************************************************)
(* Workflow engine of the coursework automation server: the session state  *)
(* machine of WorkflowOrchestrator, the draft store of SolutionGenerator,  *)
(* the mapping store of CourseMapper and the MCP tool handlers that drive  *)
(* them.                                                                   *)
(*                                                                         *)
(* Objects are references in the source: session.draft and the entry of    *)
(* the draft map may be one and the same Draft object.  Draft objects live *)
(* in `heap`; `drafts` and session.draft hold indices into it (0 = none).  *)
(*                                                                         *)
(* A tool call is one atomic step (one inbound call at a time).  `now` is   *)
(* the last reading of the wall clock; a call that reads the clock (new    *)
(* Date()) gets the input dt, the time passed since the previous reading.  *)
(***************************************************************************)
EXTENDS Integers, Sequences, FiniteSets, TLC

\* ---------------------------------------------------------------- bounds
MaxSessions == 2
MaxCourses == 1
MaxAssignments == 1
MaxGs == 1
MaxContent == 2
MaxDrafts == 2
MaxLog == 9
MaxTime == 0
MaxUploads == 1
MaxOrchLog == 4
MaxFlowLog == 15
MaxOrchTime == 1
MaxMapCourses == 2
MaxMapGs == 2
MaxMapNames == 2
MaxMapList == 2
MaxMapAssignments == 1
MaxStr == 3
MaxNameWords == 1
MaxTags == 2
MaxDesc == 2
MaxGenAssignments == 2
MaxGenDrafts == 3
MaxGenTime == 1
MaxQueryList == 3
MaxResubmitSessions == 1
MaxResubmitUploads == 2
MaxResubmitLog == 10

Courses == 1..MaxCourses
Assignments == 1..MaxAssignments
GsCourses == 1..MaxGs
Contents == 1..MaxContent
Keys == Courses \X Assignments

\* the catalogues the mapping store is called with directly
MapCourses == 1..MaxMapCourses
MapGsIds == 1..MaxMapGs
MapNames == 1..MaxMapNames
MapAssignments == 1..MaxMapAssignments

Formats == {"code", "essay"}
Urls == {"", "url"}
Requests == {"parseable", "unparseable"}
DraftStatuses == {"draft", "ready_for_review", "approved", "submitted"}
Terminal == {"submitted", "failed"}

VARIABLES sessions, heap, drafts, courseMappings, assignmentMappings, mapperCall, call,
          uploads, now

vars == <<sessions, heap, drafts, courseMappings, assignmentMappings, mapperCall, call,
          uploads, now>>

\* ------------------------------------------------------- WorkflowOrchestrator

\* log() gone wrong: the entry is put in front of the log (unshift for push)
log_unshift(session, action, details, success, error) ==
  [session EXCEPT !.logs =
     <<[timestamp |-> now', action |-> action, details |-> details,
        success |-> success, error |-> error]>> \o @]

\* log(): push one entry stamped with the current wall-clock time
log(session, action, details, success, error) ==
  [session EXCEPT !.logs = Append(@,
     [timestamp |-> now', action |-> action, details |-> details,
      success |-> success, error |-> error])]

\* the object literal built by createSession, before its first log entry
NewSession(originalRequest) ==
  [status |-> "in_progress", startedAt |-> now', completedAt |-> -1,
   originalRequest |-> originalRequest,
   canvasCourse |-> 0, canvasAssignment |-> 0,
   analysis |-> "none", solutionContext |-> "none", generatedPrompt |-> "none",
   draft |-> 0, submissionUrl |-> "none", logs |-> << >>]

createSession(originalRequest) ==
  log(NewSession(originalRequest), "resolve_course", "Workflow session started", TRUE, "none")

setCourse(session, course) ==
  log([session EXCEPT !.canvasCourse = course],
      "resolve_course", "Resolved course", TRUE, "none")

setAssignment(session, assignment) ==
  log([session EXCEPT !.canvasAssignment = assignment],
      "resolve_assignment", "Resolved assignment", TRUE, "none")

\* setAnalysis gone wrong: an assignment that cannot be automated fails the session
setAnalysis_failing(session, analysis) ==
  log([session EXCEPT !.analysis = analysis,
                      !.status = IF analysis = "not_automatable" THEN "failed" ELSE @],
      "analyze_assignment", "Analyzed", TRUE, "none")

setAnalysis(session, analysis) ==
  log([session EXCEPT !.analysis = analysis],
      "analyze_assignment", "Analyzed", TRUE, "none")

setSolutionContext(session, context) ==
  log([session EXCEPT !.solutionContext = context, !.generatedPrompt = "prompt"],
      "prepare_solution", "Prepared solution context", TRUE, "none")

setDraft(session, draft) ==
  log([session EXCEPT !.draft = draft, !.status = "awaiting_review"],
      "save_draft", "Draft saved", TRUE, "none")

\* approveDraft gone wrong: the session is approved whether or not it has a draft
approveDraft_unguarded(session, h) ==
  [session |-> log([session EXCEPT !.status = "approved"],
                   "approve_draft", "Draft approved for submission", TRUE, "none"),
   heap |-> IF session.draft # 0
            THEN [h EXCEPT ![session.draft].status = "approved"]
            ELSE h]

\* approveDraft writes session.draft.status: the result is the session and the heap
approveDraft(session, h) ==
  IF session.draft # 0
  THEN [session |-> log([session EXCEPT !.status = "approved"],
                        "approve_draft", "Draft approved for submission", TRUE, "none"),
        heap |-> [h EXCEPT ![session.draft].status = "approved"]]
  ELSE [session |-> session, heap |-> h]

\* recordSubmission gone wrong: the draft keeps its status
recordSubmission_keepsDraft(session, h, url) ==
  [session |-> log([session EXCEPT !.submissionUrl = url, !.status = "submitted",
                                   !.completedAt = now'],
                   "submit_assignment", "Submitted successfully", TRUE, "none"),
   heap |-> h]

recordSubmission(session, h, url) ==
  [session |-> log([session EXCEPT !.submissionUrl = url, !.status = "submitted",
                                   !.completedAt = now'],
                   "submit_assignment", "Submitted successfully", TRUE, "none"),
   heap |-> IF session.draft # 0
            THEN [h EXCEPT ![session.draft].status = "submitted"]
            ELSE h]

\* recordError gone wrong: the resolved course is cleared with the failure
recordError_clears(session, error) ==
  log([session EXCEPT !.status = "failed", !.canvasCourse = 0],
      "error", error, FALSE, error)

recordError(session, error) ==
  log([session EXCEPT !.status = "failed"], "error", error, FALSE, error)

\* ---------------------------------------------------------- SolutionGenerator

\* the Draft object gone wrong: createdAt is always the time of the call
saveDraftObject_createdNow(h, d, assignmentId, courseId, content) ==
  [assignmentId |-> assignmentId, courseId |-> courseId, content |-> content,
   createdAt |-> now', updatedAt |-> now', status |-> "draft"]

\* saveDraft builds a NEW Draft object and puts it into the map under the key
\* (assignmentName and format are carried along and never read: left out)
saveDraftObject(h, d, assignmentId, courseId, content) ==
  [assignmentId |-> assignmentId, courseId |-> courseId, content |-> content,
   createdAt |-> IF d[<<courseId, assignmentId>>] # 0
                 THEN h[d[<<courseId, assignmentId>>]].createdAt ELSE now',
   updatedAt |-> now', status |-> "draft"]

\* saveDraft gone wrong: the Draft object already under the key is written over
saveDraft_inPlace(h, d, assignmentId, courseId, content) ==
  IF d[<<courseId, assignmentId>>] # 0
  THEN [heap |-> [h EXCEPT ![d[<<courseId, assignmentId>>]] =
                    saveDraftObject(h, d, assignmentId, courseId, content)],
        drafts |-> d,
        draft |-> d[<<courseId, assignmentId>>]]
  ELSE [heap |-> Append(h, saveDraftObject(h, d, assignmentId, courseId, content)),
        drafts |-> [d EXCEPT ![<<courseId, assignmentId>>] = Len(h) + 1],
        draft |-> Len(h) + 1]

saveDraft(h, d, assignmentId, courseId, content) ==
  [heap |-> Append(h, saveDraftObject(h, d, assignmentId, courseId, content)),
   drafts |-> [d EXCEPT ![<<courseId, assignmentId>>] = Len(h) + 1],
   draft |-> Len(h) + 1]

getDraft(d, courseId, assignmentId) == d[<<courseId, assignmentId>>]

updateDraftStatus(h, d, courseId, assignmentId, status) ==
  LET draft == d[<<courseId, assignmentId>>] IN
  IF draft # 0
  THEN [h EXCEPT ![draft].status = status, ![draft].updatedAt = now']
  ELSE h

\* updateDraftContent gone wrong: the status is left as it is
updateDraftContent_keepsStatus(h, d, courseId, assignmentId, content) ==
  LET draft == d[<<courseId, assignmentId>>] IN
  IF draft # 0
  THEN [h EXCEPT ![draft].content = content, ![draft].updatedAt = now']
  ELSE h

updateDraftContent(h, d, courseId, assignmentId, content) ==
  LET draft == d[<<courseId, assignmentId>>] IN
  IF draft # 0
  THEN [h EXCEPT ![draft].content = content, ![draft].updatedAt = now',
                 ![draft].status = "draft"]
  ELSE h

deleteDraft(d, courseId, assignmentId) ==
  [d EXCEPT ![<<courseId, assignmentId>>] = 0]

\* --------------------------------------------------------------- CourseMapper

CourseThreshold == 50
AssignmentThreshold == 40

\* Strings are sequences of characters of a small alphabet: two lower-case
\* letters, an upper-case letter, a digit and a punctuation mark
Chars == {"a", "b", "A", "1", "-"}
Strings == UNION {[1..n -> Chars] : n \in 0..MaxStr}

\* the letters and digits of request, course and assignment texts
Alphabet == <<"a", "b", "c", "d", "e", "f", "g", "h", "i", "j", "k", "l", "m",
              "n", "o", "p", "q", "r", "s", "t", "u", "v", "w", "x", "y", "z">>
Capitals == <<"A", "B", "C", "D", "E", "F", "G", "H", "I", "J", "K", "L", "M",
              "N", "O", "P", "Q", "R", "S", "T", "U", "V", "W", "X", "Y", "Z">>
DigitChars == <<"0", "1", "2", "3", "4", "5", "6", "7", "8", "9">>

Range(seq) == {seq[i] : i \in 1..Len(seq)}
IndexOf(seq, x) == CHOOSE i \in 1..Len(seq) : seq[i] = x

\* String.prototype.toLowerCase, character by character
toLowerCase(s) ==
  [i \in 1..Len(s) |->
     IF s[i] \in Range(Capitals) THEN Alphabet[IndexOf(Capitals, s[i])] ELSE s[i]]

\* the characters of the alphabet that [a-z0-9] matches
AZ09 == {"a", "b", "1"}

\* s.toLowerCase().replace(/[^a-z0-9]/g, "")
normalize(s) == SelectSeq(toLowerCase(s), LAMBDA ch : ch \in AZ09)

\* String.prototype.includes: t occurs in s as a contiguous run
includes(s, t) ==
  \E k \in 0..(Len(s) - Len(t)) : SubSeq(s, k + 1, k + Len(t)) = t

\* the test gone wrong: only the second string is looked for in the first
contains_oneWay(str1, str2) == includes(str1, str2)

\* the test gone wrong: containment is never found
contains_never(str1, str2) == FALSE

\* str1.includes(str2) || str2.includes(str1)
contains(str1, str2) == includes(str1, str2) \/ includes(str2, str1)

Min3(x, y, z) == IF x <= y /\ x <= z THEN x ELSE IF y <= z THEN y ELSE z

\* matrix[i][j] of the Levenshtein table of str1 and str2
RECURSIVE matrix(_, _, _, _)
matrix(str1, str2, i, j) ==
  IF j = 0 THEN i
  ELSE IF i = 0 THEN j
  ELSE Min3(matrix(str1, str2, i - 1, j) + 1,
            matrix(str1, str2, i, j - 1) + 1,
            matrix(str1, str2, i - 1, j - 1) + (IF str1[i] = str2[j] THEN 0 ELSE 1))

\* the numbers stringSimilarity returns, as fractions num / den
Fraction(num, den) == [num |-> num, den |-> den]

\* stringSimilarity gone wrong: the empty strings are looked for first
stringSimilarity_emptyFirst(s1, s2) ==
  LET str1 == normalize(s1)
      str2 == normalize(s2)
      maxLen == IF Len(str1) >= Len(str2) THEN Len(str1) ELSE Len(str2)
  IN IF Len(str1) = 0 \/ Len(str2) = 0 THEN Fraction(0, 1)
     ELSE IF str1 = str2 THEN Fraction(1, 1)
     ELSE IF contains(str1, str2) THEN Fraction(4, 5)
     ELSE Fraction(maxLen - matrix(str1, str2, Len(str1), Len(str2)), maxLen)

\* stringSimilarity: 1, 0, 0.8 or 1 - distance / maxLen
stringSimilarity(s1, s2) ==
  LET str1 == normalize(s1)
      str2 == normalize(s2)
      maxLen == IF Len(str1) >= Len(str2) THEN Len(str1) ELSE Len(str2)
  IN IF str1 = str2 THEN Fraction(1, 1)
     ELSE IF Len(str1) = 0 \/ Len(str2) = 0 THEN Fraction(0, 1)
     ELSE IF contains(str1, str2) THEN Fraction(4, 5)
     ELSE Fraction(maxLen - matrix(str1, str2, Len(str1), Len(str2)), maxLen)

\* let bestMatch = null
NoMatch == [id |-> 0, name |-> 0]

\* the check gone wrong: a target is never taken to be used
isUsed_never(usedGradescopeIds, gseCourse) == FALSE

\* usedGradescopeIds.has(gseCourse.id)
isUsed(usedGradescopeIds, gseCourse) == gseCourse.id \in usedGradescopeIds

\* the test gone wrong: a score has to be above the threshold
accepts_strict(score, bestScore, threshold) == score > bestScore /\ score > threshold

\* the test gone wrong: a later target of the same score replaces the best
accepts_latest(score, bestScore, threshold) == score >= bestScore /\ score >= threshold

\* score > bestScore && score >= 0.5 (0.4 for assignments)
accepts(score, bestScore, threshold) == score > bestScore /\ score >= threshold

\* inner loop of autoMatchCourses: the best not-yet-used target of one source
\* course.  A target course is [id, name]; scores are in hundredths,
\* score[c][n] = max(nameScore, codeScore) of source course c and a target named n
RECURSIVE bestCourseMatch(_, _, _, _, _, _, _)
bestCourseMatch(canvasCourse, gradescopeCourses, score, usedGradescopeIds, j, bestMatch, bestScore) ==
  IF j > Len(gradescopeCourses) THEN bestMatch
  ELSE LET gseCourse == gradescopeCourses[j] IN
       IF isUsed(usedGradescopeIds, gseCourse)
       THEN bestCourseMatch(canvasCourse, gradescopeCourses, score, usedGradescopeIds,
                            j + 1, bestMatch, bestScore)
       ELSE IF accepts(score[canvasCourse][gseCourse.name], bestScore, CourseThreshold)
            THEN bestCourseMatch(canvasCourse, gradescopeCourses, score, usedGradescopeIds,
                                 j + 1, gseCourse, score[canvasCourse][gseCourse.name])
            ELSE bestCourseMatch(canvasCourse, gradescopeCourses, score, usedGradescopeIds,
                                 j + 1, bestMatch, bestScore)

\* outer loop of autoMatchCourses
RECURSIVE matchCourses(_, _, _, _, _, _, _)
matchCourses(canvasCourses, gradescopeCourses, score, i, matched, unmatched, usedGradescopeIds) ==
  IF i > Len(canvasCourses) THEN [matched |-> matched, unmatched |-> unmatched]
  ELSE LET canvasCourse == canvasCourses[i]
           bestMatch == bestCourseMatch(canvasCourse, gradescopeCourses, score,
                                        usedGradescopeIds, 1, NoMatch, 0)
       IN IF bestMatch # NoMatch
          THEN matchCourses(canvasCourses, gradescopeCourses, score, i + 1,
                 Append(matched, [canvasCourseId |-> canvasCourse,
                                  gradescopeCourseId |-> bestMatch.id,
                                  gradescopeCourseName |-> bestMatch.name,
                                  excluded |-> FALSE]),
                 unmatched, usedGradescopeIds \cup {bestMatch.id})
          ELSE matchCourses(canvasCourses, gradescopeCourses, score, i + 1,
                 matched, Append(unmatched, canvasCourse), usedGradescopeIds)

\* autoMatchCourses: the returned matched list is also what the store then holds
autoMatchCourses(canvasCourses, gradescopeCourses, score) ==
  matchCourses(canvasCourses, gradescopeCourses, score, 1, << >>, << >>, {})

\* this.courseMappings = matched gone wrong: the new matches are added to the old
storeMatched_merge(m, matched) == m \o matched

\* this.courseMappings = matched
storeMatched(m, matched) == matched

\* manualMapCourse gone wrong: the old mapping of the course is not removed
manualMapCourse_keepsOld(m, canvasCourse, gradescopeCourse) ==
  Append(m, [canvasCourseId |-> canvasCourse,
             gradescopeCourseId |-> gradescopeCourse.id,
             gradescopeCourseName |-> gradescopeCourse.name, excluded |-> FALSE])

\* manualMapCourse gone wrong: every mapping is included again
manualMapCourse_includesAll(m, canvasCourse, gradescopeCourse) ==
  Append([i \in 1..Len(SelectSeq(m, LAMBDA x : x.canvasCourseId # canvasCourse)) |->
            [SelectSeq(m, LAMBDA x : x.canvasCourseId # canvasCourse)[i]
               EXCEPT !.excluded = FALSE]],
         [canvasCourseId |-> canvasCourse,
          gradescopeCourseId |-> gradescopeCourse.id,
          gradescopeCourseName |-> gradescopeCourse.name, excluded |-> FALSE])

\* manualMapCourse: filter out the mappings of the course, push the new one.
\* A source course is its id (which stands for its name too: canvasCourseName
\* is left out of the mapping); a target course is [id, name]
manualMapCourse(m, canvasCourse, gradescopeCourse) ==
  Append(SelectSeq(m, LAMBDA x : x.canvasCourseId # canvasCourse),
         [canvasCourseId |-> canvasCourse,
          gradescopeCourseId |-> gradescopeCourse.id,
          gradescopeCourseName |-> gradescopeCourse.name, excluded |-> FALSE])

\* inner loop of autoMatchAssignments; score[a][n] is the similarity of the
\* name of source assignment a and a target named n
RECURSIVE bestAssignmentMatch(_, _, _, _, _, _, _)
bestAssignmentMatch(canvasAssignment, gradescopeAssignments, score, usedGradescopeIds, j, bestMatch, bestScore) ==
  IF j > Len(gradescopeAssignments) THEN bestMatch
  ELSE LET gsAssignment == gradescopeAssignments[j] IN
       IF gsAssignment.id \in usedGradescopeIds
       THEN bestAssignmentMatch(canvasAssignment, gradescopeAssignments, score,
                                usedGradescopeIds, j + 1, bestMatch, bestScore)
       ELSE IF accepts(score[canvasAssignment][gsAssignment.name], bestScore,
                       AssignmentThreshold)
            THEN bestAssignmentMatch(canvasAssignment, gradescopeAssignments, score,
                                     usedGradescopeIds, j + 1, gsAssignment,
                                     score[canvasAssignment][gsAssignment.name])
            ELSE bestAssignmentMatch(canvasAssignment, gradescopeAssignments, score,
                                     usedGradescopeIds, j + 1, bestMatch, bestScore)

\* outer loop of autoMatchAssignments
RECURSIVE matchAssignments(_, _, _, _, _, _, _)
matchAssignments(canvasAssignments, gradescopeAssignments, score, i, matched, unmatched, usedGradescopeIds) ==
  IF i > Len(canvasAssignments) THEN [matched |-> matched, unmatched |-> unmatched]
  ELSE LET canvasAssignment == canvasAssignments[i]
           bestMatch == bestAssignmentMatch(canvasAssignment, gradescopeAssignments, score,
                                            usedGradescopeIds, 1, NoMatch, 0)
       IN IF bestMatch # NoMatch
          THEN matchAssignments(canvasAssignments, gradescopeAssignments, score, i + 1,
                 Append(matched, [canvasAssignmentId |-> canvasAssignment,
                                  gradescopeAssignmentId |-> bestMatch.id]),
                 unmatched, usedGradescopeIds \cup {bestMatch.id})
          ELSE matchAssignments(canvasAssignments, gradescopeAssignments, score, i + 1,
                 matched, Append(unmatched, canvasAssignment), usedGradescopeIds)

autoMatchAssignments(canvasAssignments, gradescopeAssignments, score) ==
  matchAssignments(canvasAssignments, gradescopeAssignments, score, 1, << >>, << >>, {})

\* this.assignmentMappings.set(String(canvasCourseId), matched) gone wrong:
\* the new matches are added to the list the course had
setAssignmentMappings_merge(am, canvasCourseId, matched) ==
  [am EXCEPT ![canvasCourseId] = @ \o matched]

\* this.assignmentMappings.set(String(canvasCourseId), matched)
setAssignmentMappings(am, canvasCourseId, matched) ==
  [am EXCEPT ![canvasCourseId] = matched]

\* getAssignmentMappings: the list of the course, [] when it has none
getAssignmentMappings(am, canvasCourseId) == am[canvasCourseId]

\* Array.prototype.find on courseMappings: index of the first mapping of the course, 0 if none
findMapping(m, canvasCourseId) ==
  IF \E i \in 1..Len(m) : m[i].canvasCourseId = canvasCourseId
  THEN CHOOSE i \in 1..Len(m) :
         /\ m[i].canvasCourseId = canvasCourseId
         /\ \A k \in 1..(i - 1) : m[k].canvasCourseId # canvasCourseId
  ELSE 0

getMappingForCanvasCourse(m, canvasCourseId) == findMapping(m, canvasCourseId)

\* excludeCourse gone wrong: every mapping of the store is excluded
excludeCourse_all(m, canvasCourseId) ==
  IF findMapping(m, canvasCourseId) # 0
  THEN [i \in 1..Len(m) |-> [m[i] EXCEPT !.excluded = TRUE]]
  ELSE m

excludeCourse(m, canvasCourseId) ==
  IF findMapping(m, canvasCourseId) # 0
  THEN [m EXCEPT ![findMapping(m, canvasCourseId)].excluded = TRUE]
  ELSE m

includeCourse(m, canvasCourseId) ==
  IF findMapping(m, canvasCourseId) # 0
  THEN [m EXCEPT ![findMapping(m, canvasCourseId)].excluded = FALSE]
  ELSE m

getActiveCourseMappings(m) == SelectSeq(m, LAMBDA x : ~x.excluded)

\* ---------------------------------------------------------- AssignmentAnalyzer

\* assignment.name, as the set of its words.  One word stands for each pattern
\* the classifier tests the name with; "team project" matches two of them,
\* "week" none
NameWords == {"exam", "lab 1", "homework", "project", "team", "team project",
              "presentation", "discussion", "attendance", "reflection", "essay", "week"}

\* assignment.submission_types
SubmissionTags == {"online_upload", "online_text_entry", "external_tool", "online_quiz",
                   "discussion_topic", "on_paper", "none"}

\* assignment.description, as a sequence of pieces: runs of text and tags, each
\* a sequence of syllables
TextRun(t) == [markup |-> FALSE, text |-> t]
Tag(t) == [markup |-> TRUE, text |-> t]
DescPieces ==
  {TextRun(<<"Grade", "scope">>), TextRun(<<"piazza">>),
   TextRun(<<"prairielearn">>), TextRun(<<"zybooks">>), TextRun(<<"reflection paper">>),
   TextRun(<<"essay">>), TextRun(<<"code">>), TextRun(<<"group project">>),
   TextRun(<<"slides">>), Tag(<<"<a href=", "grade", "scope", ">">>)}

RECURSIVE Flatten(_)
Flatten(pieces) ==
  IF pieces = << >> THEN << >> ELSE Head(pieces).text \o Flatten(Tail(pieces))

\* cleanHtml: the text content, tags left out (there is no script, style or
\* link element and no white space among the pieces)
cleanHtml(html) == Flatten(SelectSeq(html, LAMBDA piece : ~piece.markup))

\* toLowerCase of a description, syllable by syllable
lowerCase(text) == [i \in 1..Len(text) |-> IF text[i] = "Grade" THEN "grade" ELSE text[i]]

\* RegExp.prototype.test on a name: one of its words matches
testName(words, name) == name \cap words # {}

\* RegExp.prototype.test on a text: one of its syllables matches
testText(syllables, text) == \E i \in 1..Len(text) : text[i] \in syllables

\* classifyAssignment gone wrong: a name of an exam yields the type exam
classifyAssignment_exam(assignment, cleanText) ==
  LET name == assignment.name
      desc == lowerCase(cleanText)
      types == assignment.submission_types
  IN IF "online_quiz" \in types THEN "quiz"
     ELSE IF "discussion_topic" \in types THEN "discussion"
     ELSE IF "external_tool" \in types /\ includes(desc, <<"grade", "scope">>) THEN "homework"
     ELSE IF testName({"exam"}, name) THEN "exam"
     ELSE IF testName({"lab 1"}, name) THEN "lab"
     ELSE IF testName({"homework"}, name) THEN "homework"
     ELSE IF testName({"project", "team project"}, name)
          THEN IF testName({"team", "team project"}, name)
                  \/ testText({"group project"}, desc)
               THEN "group_project" ELSE "homework"
     ELSE IF testName({"presentation"}, name) THEN "presentation"
     ELSE IF testName({"discussion"}, name) THEN "discussion"
     ELSE IF testName({"attendance"}, name) THEN "attendance"
     ELSE IF testName({"reflection"}, name) THEN "reflection"
     ELSE IF testName({"essay"}, name) THEN "essay"
     ELSE IF testText({"reflection paper"}, desc) THEN "reflection"
     ELSE IF testText({"essay"}, desc) THEN "essay"
     ELSE IF testText({"code"}, desc) THEN "code"
     ELSE IF testText({"group project"}, desc) THEN "group_project"
     ELSE IF testText({"slides"}, desc) THEN "presentation"
     ELSE "unknown"

\* classifyAssignment
classifyAssignment(assignment, cleanText) ==
  LET name == assignment.name
      desc == lowerCase(cleanText)
      types == assignment.submission_types
  IN IF "online_quiz" \in types THEN "quiz"
     ELSE IF "discussion_topic" \in types THEN "discussion"
     ELSE IF "external_tool" \in types /\ includes(desc, <<"grade", "scope">>) THEN "homework"
     ELSE IF testName({"exam"}, name) THEN "quiz"
     ELSE IF testName({"lab 1"}, name) THEN "lab"
     ELSE IF testName({"homework"}, name) THEN "homework"
     ELSE IF testName({"project", "team project"}, name)
          THEN IF testName({"team", "team project"}, name)
                  \/ testText({"group project"}, desc)
               THEN "group_project" ELSE "homework"
     ELSE IF testName({"presentation"}, name) THEN "presentation"
     ELSE IF testName({"discussion"}, name) THEN "discussion"
     ELSE IF testName({"attendance"}, name) THEN "attendance"
     ELSE IF testName({"reflection"}, name) THEN "reflection"
     ELSE IF testName({"essay"}, name) THEN "essay"
     ELSE IF testText({"reflection paper"}, desc) THEN "reflection"
     ELSE IF testText({"essay"}, desc) THEN "essay"
     ELSE IF testText({"code"}, desc) THEN "code"
     ELSE IF testText({"group project"}, desc) THEN "group_project"
     ELSE IF testText({"slides"}, desc) THEN "presentation"
     ELSE "unknown"

\* detectExternalTool: looks in the description as it is, tags included
detectExternalTool(assignment) ==
  LET desc == lowerCase(Flatten(assignment.description))
  IN IF includes(desc, <<"grade", "scope">>) THEN "Gradescope"
     ELSE IF includes(desc, <<"piazza">>) THEN "Piazza"
     ELSE IF includes(desc, <<"prairielearn">>) THEN "PrairieLearn"
     ELSE IF includes(desc, <<"zybooks">>) THEN "zyBooks"
     ELSE "undefined"

\* extractSubmissionInfo (dueDate and pointsPossible are carried along and
\* never read: left out)
extractSubmissionInfo(assignment) ==
  [types |-> assignment.submission_types,
   isExternalTool |-> "external_tool" \in assignment.submission_types,
   externalToolName |-> IF "external_tool" \in assignment.submission_types
                        THEN detectExternalTool(assignment) ELSE "undefined"]

Verdict(automatable, reason) == [automatable |-> automatable, reason |-> reason]

\* determineAutomatability gone wrong: the submission tags are asked first
determineAutomatability_tagsFirst(type, submission) ==
  IF submission.types \cap {"online_upload", "online_text_entry"} # {}
  THEN Verdict(TRUE, <<"Supports online submission">>)
  ELSE IF type \in {"quiz", "exam", "attendance", "presentation", "group_project",
                    "discussion"}
  THEN Verdict(FALSE, <<"Not automatable">>)
  ELSE Verdict(type \in {"essay", "reflection", "code", "homework", "lab"},
               <<"By type">>)

\* determineAutomatability gone wrong: the type is asked before the external tool
determineAutomatability_typeFirst(type, submission) ==
  IF type \in {"quiz", "exam", "attendance", "presentation", "group_project", "discussion"}
  THEN Verdict(FALSE, <<"Not automatable">>)
  ELSE IF type \in {"essay", "reflection", "code", "homework", "lab"}
  THEN Verdict(TRUE, <<"By type">>)
  ELSE IF submission.isExternalTool
  THEN IF submission.externalToolName = "Gradescope"
       THEN Verdict(TRUE, <<"Can submit to Gradescope via API">>)
       ELSE Verdict(FALSE, <<"External tool (",
                             IF submission.externalToolName = "undefined"
                             THEN "unknown" ELSE submission.externalToolName,
                             ") not supported">>)
  ELSE Verdict(FALSE, <<"Unknown submission requirements">>)

\* determineAutomatability gone wrong: the submission rules come after the
\* rules of the automatable types
determineAutomatability_typesTogether(type, submission) ==
  IF type \in {"quiz", "exam", "attendance", "presentation", "group_project", "discussion"}
  THEN Verdict(FALSE, <<"Not automatable">>)
  ELSE IF type \in {"essay", "reflection", "code", "homework", "lab"}
  THEN Verdict(TRUE, <<"By type">>)
  ELSE IF submission.types \cap {"none", "on_paper"} # {}
  THEN Verdict(FALSE, <<"No online submission">>)
  ELSE IF submission.isExternalTool
  THEN IF submission.externalToolName = "Gradescope"
       THEN Verdict(TRUE, <<"Can submit to Gradescope via API">>)
       ELSE Verdict(FALSE, <<"External tool (",
                             IF submission.externalToolName = "undefined"
                             THEN "unknown" ELSE submission.externalToolName,
                             ") not supported">>)
  ELSE IF submission.types \cap {"online_upload", "online_text_entry"} # {}
  THEN Verdict(TRUE, <<"Supports online submission">>)
  ELSE Verdict(FALSE, <<"Unknown submission requirements">>)

\* determineAutomatability: the first rule that applies decides (the
\* requirements argument is never read: left out).  A reason is the sequence of
\* the parts of its text
determineAutomatability(type, submission) ==
  IF type = "quiz" \/ type = "exam"
  THEN Verdict(FALSE, <<"Quizzes and exams require real-time responses">>)
  ELSE IF type = "attendance"
  THEN Verdict(FALSE, <<"Attendance requires physical presence">>)
  ELSE IF type = "presentation"
  THEN Verdict(FALSE, <<"Presentations require human delivery">>)
  ELSE IF type = "group_project"
  THEN Verdict(FALSE, <<"Group projects require coordination with team members">>)
  ELSE IF type = "discussion"
  THEN Verdict(FALSE, <<"Discussions require interactive participation">>)
  ELSE IF "none" \in submission.types
  THEN Verdict(FALSE, <<"No submission required">>)
  ELSE IF "on_paper" \in submission.types
  THEN Verdict(FALSE, <<"Requires physical paper submission">>)
  ELSE IF submission.isExternalTool
  THEN IF submission.externalToolName = "Gradescope"
       THEN Verdict(TRUE, <<"Can submit to Gradescope via API">>)
       ELSE Verdict(FALSE, <<"External tool (",
                             IF submission.externalToolName = "undefined"
                             THEN "unknown" ELSE submission.externalToolName,
                             ") not supported">>)
  ELSE IF type = "essay" \/ type = "reflection"
  THEN Verdict(TRUE, <<"Written assignments can be generated">>)
  ELSE IF type = "code" \/ type = "homework" \/ type = "lab"
  THEN Verdict(TRUE, <<"Code/homework assignments can be completed">>)
  ELSE IF "online_upload" \in submission.types \/ "online_text_entry" \in submission.types
  THEN Verdict(TRUE, <<"Supports online submission">>)
  ELSE Verdict(FALSE, <<"Unknown submission requirements">>)

\* analyze (id, name, courseId, requirements and the two descriptions are
\* carried along: left out)
analyze(assignment) ==
  LET cleanDesc == cleanHtml(assignment.description)
      type == classifyAssignment(assignment, cleanDesc)
      submission == extractSubmissionInfo(assignment)
      verdict == determineAutomatability(type, submission)
  IN [type |-> type, automatable |-> verdict.automatable,
      automatableReason |-> verdict.reason, submission |-> submission]

\* ------------------------------------- WorkflowOrchestrator: query resolution

\* Requests, queries, course names and codes and assignment names are
\* sequences of characters.  An optional member of a result (a ? member of
\* the return type, or null) is a sequence of no or one value.

\* String.prototype.toUpperCase, character by character
toUpperCase(s) ==
  [i \in 1..Len(s) |->
     IF s[i] \in Range(Alphabet) THEN Capitals[IndexOf(Alphabet, s[i])] ELSE s[i]]

\* the character classes of the regular expressions: \s (the blank is the
\* only white space of the texts), [a-z] under the flag i, \d and \w
Blank == {" "}
Letter == Range(Alphabet) \cup Range(Capitals)
Digit == Range(DigitChars)
WordChar == Letter \cup Digit \cup {"_"}
NonBlank == WordChar \cup {":", "#", "-", "."}

\* the length of the longest run of characters of a class that starts at
\* position p of s (a greedy quantifier)
RECURSIVE Run(_, _, _)
Run(s, p, class) ==
  IF p <= Len(s) /\ s[p] \in class THEN 1 + Run(s, p + 1, class) ELSE 0

\* s from position p on
From(s, p) == SubSeq(s, p, Len(s))

\* String.prototype.trim
RECURSIVE trimEnd(_)
trimEnd(s) ==
  IF s # << >> /\ s[Len(s)] \in Blank THEN trimEnd(SubSeq(s, 1, Len(s) - 1)) ELSE s

trim(s) == trimEnd(From(s, 1 + Run(s, 1, Blank)))

\* String.prototype.startsWith
startsWith(s, t) == Len(t) <= Len(s) /\ SubSeq(s, 1, Len(t)) = t

\* s.split(/\s+/): the pieces between the runs of white space
RECURSIVE split(_)
split(s) ==
  LET word == Run(s, 1, NonBlank)
      gap == Run(s, word + 1, Blank)
  IN IF gap = 0 THEN <<s>>
     ELSE <<SubSeq(s, 1, word)>> \o split(From(s, word + gap + 1))

\* normalized.split(/\s+/).filter(t => t.length > 1)
freeTerms(normalized) == SelectSeq(split(normalized), LAMBDA t : Len(t) > 1)

\* parseInt of a run of digits
RECURSIVE parseInt(_)
parseInt(digits) ==
  IF digits = << >> THEN 0
  ELSE 10 * parseInt(SubSeq(digits, 1, Len(digits) - 1))
       + IndexOf(DigitChars, digits[Len(digits)]) - 1

\* String(num)
RECURSIVE String(_)
String(num) ==
  IF num < 10 THEN <<DigitChars[num + 1]>>
  ELSE String(num \div 10) \o <<DigitChars[(num % 10) + 1]>>

\* s.padStart(2, "0")
padStart(s) == IF Len(s) >= 2 THEN s ELSE <<"0">> \o s

\* ([a-z]+)\s*(\d+[a-z]?) under the flag i tried at position p of s: the two
\* groups and the position after the match, or << >> when it does not match
\* there.  A shorter run of letters is followed by a letter, so only the
\* longest run can be followed by the digits.
codeAt(s, p) ==
  LET letters == Run(s, p, Letter)
      d == p + letters + Run(s, p + letters, Blank)
      digits == Run(s, d, Digit)
      suffix == IF d + digits <= Len(s) /\ s[d + digits] \in Letter THEN 1 ELSE 0
      end == d + digits + suffix
  IN IF letters >= 1 /\ digits >= 1
     THEN <<[letters |-> SubSeq(s, p, p + letters - 1), number |-> SubSeq(s, d, end - 1),
             end |-> end]>>
     ELSE << >>

\* parseCourseQuery
parseCourseQuery(query) ==
  LET normalized == trim(toLowerCase(query))
      at == codeAt(normalized, 1)
      codeMatch == IF at # << >> /\ at[1].end = Len(normalized) + 1 THEN at ELSE << >>
  IN IF codeMatch # << >>
     THEN [courseCode |-> <<toUpperCase(codeMatch[1].letters) \o <<" ">>
                            \o toUpperCase(codeMatch[1].number)>>,
           courseName |-> << >>,
           searchTerms |-> <<codeMatch[1].letters, codeMatch[1].number,
                             codeMatch[1].letters \o codeMatch[1].number>>]
     ELSE [courseCode |-> << >>, courseName |-> <<query>>,
           searchTerms |-> freeTerms(normalized)]

\* the alternatives of the first pattern of parseAssignmentQuery, in its order
Prefixed == <<<<"h", "w">>, <<"h", "o", "m", "e", "w", "o", "r", "k">>, <<"l", "a", "b">>, <<"p", "r", "o", "j", "e", "c", "t">>, <<"a", "s", "s", "i", "g", "n", "m", "e", "n", "t">>, <<"p", "s">>, <<"p", "s", "e", "t">>>>
Problem == <<"p", "r", "o", "b", "l", "e", "m">>
Set == <<"s", "e", "t">>

\* \s*#?(\d+)$ tried at position p of s: the digits, or << >>
numberAt(s, p) ==
  LET b == p + Run(s, p, Blank)
      d == IF b <= Len(s) /\ s[b] = "#" THEN b + 1 ELSE b
      digits == Run(s, d, Digit)
  IN IF digits >= 1 /\ d + digits = Len(s) + 1 THEN <<From(s, d)>> ELSE << >>

\* the lengths the first group of the first pattern can have at the start of
\* s, in the order the alternatives are tried
RECURSIVE prefixLengths(_, _)
prefixLengths(s, k) ==
  IF k > Len(Prefixed)
  THEN IF startsWith(s, Problem)
          /\ startsWith(From(s, Len(Problem) + 1 + Run(s, Len(Problem) + 1, Blank)), Set)
       THEN <<Len(Problem) + Run(s, Len(Problem) + 1, Blank) + Len(Set)>>
       ELSE << >>
  ELSE (IF startsWith(s, Prefixed[k]) THEN <<Len(Prefixed[k])>> ELSE << >>)
       \o prefixLengths(s, k + 1)

\* normalized.match(pattern) for the two patterns in turn: the groups
\* match[1] and match[2] of the first pattern that matches (an unset group
\* is << >>, as falsy as undefined is), or << >>
assignmentMatch(normalized) ==
  LET fits == SelectSeq(prefixLengths(normalized, 1),
                        LAMBDA n : numberAt(normalized, n + 1) # << >>)
  IN IF fits # << >>
     THEN <<SubSeq(normalized, 1, fits[1]), numberAt(normalized, fits[1] + 1)[1]>>
     ELSE IF normalized # << >> /\ Run(normalized, 1, Digit) = Len(normalized)
     THEN <<normalized, << >> >>
     ELSE << >>

\* parseAssignmentQuery
parseAssignmentQuery(query) ==
  LET normalized == trim(toLowerCase(query))
      match == assignmentMatch(normalized)
      num == parseInt(IF match[2] # << >> THEN match[2] ELSE match[1])
  IN IF match # << >>
     THEN [assignmentNumber |-> <<num>>, assignmentName |-> << >>,
           searchTerms |-> SelectSeq(<<match[1], String(num)>>, LAMBDA t : t # << >>)]
     ELSE [assignmentNumber |-> << >>, assignmentName |-> <<query>>,
           searchTerms |-> freeTerms(normalized)]

\* score += hit for every search term that passes the test
RECURSIVE termHits(_, _, _)
termHits(terms, test(_), hit) ==
  IF terms = << >> THEN 0
  ELSE (IF test(Head(terms)) THEN hit ELSE 0) + termHits(Tail(terms), test, hit)

\* courseLower.match(/([a-z]+)\s*(\d+[a-z]?)/i): the leftmost match
codeInName(courseLower) ==
  LET starts == {p \in 1..Len(courseLower) : codeAt(courseLower, p) # << >>}
  IN IF starts = {} THEN << >>
     ELSE codeAt(courseLower, CHOOSE p \in starts : \A q \in starts : p <= q)

\* the score the loop of findCourse gives one course
courseScore(course, parsed) ==
  LET courseLower == toLowerCase(course.name)
      codeLower == toLowerCase(course.course_code)
      code == IF parsed.courseCode = << >> THEN 0
              ELSE IF includes(codeLower, toLowerCase(parsed.courseCode[1])) THEN 100
              ELSE IF includes(courseLower, toLowerCase(parsed.courseCode[1])) THEN 90
              ELSE 0
      inCode(term) == includes(codeLower, term)
      inName(term) == includes(courseLower, term)
      found == codeInName(courseLower)
  IN code
     + termHits(parsed.searchTerms, inCode, 30)
     + termHits(parsed.searchTerms, inName, 20)
     + (IF found # << >>
           /\ \E i \in 1..Len(parsed.searchTerms) :
                \/ includes(found[1].letters, parsed.searchTerms[i])
                \/ includes(found[1].number, parsed.searchTerms[i])
        THEN 40 ELSE 0)

\* the comparison gone wrong: a later candidate of the same score wins
better_orEqual(score, bestScore) == score >= bestScore

\* score > bestScore
better(score, bestScore) == score > bestScore

\* the loop of findCourse from course i on: its bestMatch and bestScore
RECURSIVE scanCourses(_, _, _, _, _)
scanCourses(courses, parsed, i, bestMatch, bestScore) ==
  IF i > Len(courses) THEN [bestMatch |-> bestMatch, bestScore |-> bestScore]
  ELSE LET score == courseScore(courses[i], parsed) IN
       IF better(score, bestScore)
       THEN scanCourses(courses, parsed, i + 1, <<courses[i]>>, score)
       ELSE scanCourses(courses, parsed, i + 1, bestMatch, bestScore)

Min(x, y) == IF x <= y THEN x ELSE y

\* the result gone wrong: the score is returned as it is
confidence_uncapped(bestScore) == bestScore

\* Math.min(bestScore, 100)
confidence(bestScore) == Min(bestScore, 100)

\* findCourse: the course found and the confidence, or null (<< >>)
findCourse(courses, query) ==
  LET best == scanCourses(courses, parseCourseQuery(query), 1, << >>, 0)
  IN IF best.bestMatch # << >> /\ best.bestScore >= 20
     THEN <<[course |-> best.bestMatch[1], confidence |-> confidence(best.bestScore)]>>
     ELSE << >>

\* new RegExp(`\\b${assignmentNumber}\\b`).test(name): the number stands in
\* the name with no word character next to it
numPattern(name, number) ==
  \E k \in 0..(Len(name) - Len(number)) :
    /\ SubSeq(name, k + 1, k + Len(number)) = number
    /\ (k = 0 \/ name[k] \notin WordChar)
    /\ (k + Len(number) = Len(name) \/ name[k + Len(number) + 1] \notin WordChar)

\* the test gone wrong: only a number that needs the padding is looked for
paddedMatch_padded(name, assignmentNumber) ==
  assignmentNumber < 10 /\ includes(name, padStart(String(assignmentNumber)))

\* assignment.name.includes(paddedNum)
paddedMatch(name, assignmentNumber) == includes(name, padStart(String(assignmentNumber)))

\* the prefixes of findAssignment
CommonPrefixes == <<<<"h", "w">>, <<"h", "o", "m", "e", "w", "o", "r", "k">>, <<"l", "a", "b">>, <<"p", "r", "o", "j", "e", "c", "t">>, <<"a", "s", "s", "i", "g", "n", "m", "e", "n", "t">>>>

\* the score the loop of findAssignment gives one assignment
assignmentScore(assignment, parsed) ==
  LET nameLower == toLowerCase(assignment.name)
      inName(term) == includes(nameLower, term)
      isPrefix(prefix) ==
        startsWith(nameLower, prefix)
        /\ \E i \in 1..Len(parsed.searchTerms) : parsed.searchTerms[i] = prefix
  IN (IF parsed.assignmentNumber = << >> THEN 0
      ELSE (IF numPattern(assignment.name, String(parsed.assignmentNumber[1]))
            THEN 60 ELSE 0)
           + (IF paddedMatch(assignment.name, parsed.assignmentNumber[1])
              THEN 50 ELSE 0))
     + termHits(parsed.searchTerms, inName, 25)
     + termHits(CommonPrefixes, isPrefix, 20)

\* the loop of findAssignment from assignment i on
RECURSIVE scanAssignments(_, _, _, _, _)
scanAssignments(assignments, parsed, i, bestMatch, bestScore) ==
  IF i > Len(assignments) THEN [bestMatch |-> bestMatch, bestScore |-> bestScore]
  ELSE LET score == assignmentScore(assignments[i], parsed) IN
       IF better(score, bestScore)
       THEN scanAssignments(assignments, parsed, i + 1, <<assignments[i]>>, score)
       ELSE scanAssignments(assignments, parsed, i + 1, bestMatch, bestScore)

\* findAssignment: the assignment found and the confidence, or null (<< >>)
findAssignment(assignments, query) ==
  LET best == scanAssignments(assignments, parseAssignmentQuery(query), 1, << >>, 0)
  IN IF best.bestMatch # << >> /\ best.bestScore >= 25
     THEN <<[assignment |-> best.bestMatch[1],
             confidence |-> confidence(best.bestScore)]>>
     ELSE << >>

\* the words that part the two queries of a request: (?:from|for|in)
Parting == <<<<"f", "r", "o", "m">>, <<"f", "o", "r">>, <<"i", "n">>>>

\* request.match(/(.+?)\s+(?:from|for|in)\s+(.+)/i) with the first group
\* ending at position i: the two groups, or << >>.  The white space after
\* the parting word must leave a character to the second group.
fromAt(request, i) ==
  LET w == i + 1 + Run(request, i + 1, Blank)
      lower == toLowerCase(From(request, w))
      words == SelectSeq(Parting, LAMBDA word : startsWith(lower, word))
      q == w + Len(words[1])
  IN IF i + 1 <= Len(request) /\ request[i + 1] \in Blank /\ words # << >>
        /\ q + 1 <= Len(request) /\ request[q] \in Blank
     THEN <<SubSeq(request, 1, i), From(request, q)>>
     ELSE << >>

\* the lazy first group: the match with the shortest first group
fromMatch(request) ==
  LET ends == {i \in 1..Len(request) : fromAt(request, i) # << >>}
  IN IF ends = {} THEN << >>
     ELSE fromAt(request, CHOOSE i \in ends : \A k \in ends : i <= k)

\* request.match(/^([a-z]+\s*\d+[a-z]?)\s+(.+)/i)
reverseMatch(request) ==
  LET at == codeAt(request, 1)
  IN IF at # << >> /\ at[1].end + 1 <= Len(request) /\ request[at[1].end] \in Blank
     THEN <<SubSeq(request, 1, at[1].end - 1), From(request, at[1].end)>>
     ELSE << >>

\* fromMatch[1].replace(/^complete\s+/i, "")
dropComplete(s) ==
  LET blanks == Run(s, 9, Blank)
  IN IF startsWith(toLowerCase(s), <<"c", "o", "m", "p", "l", "e", "t", "e">>) /\ blanks >= 1
     THEN From(s, 9 + blanks) ELSE s

\* the two queries case "start_assignment" takes from the request, or << >>
\* when it matches neither expression
requestQueries(request) ==
  IF fromMatch(request) # << >>
  THEN <<[assignmentQuery |-> trim(dropComplete(fromMatch(request)[1])),
          courseQuery |-> trim(fromMatch(request)[2])]>>
  ELSE IF reverseMatch(request) # << >>
  THEN <<[courseQuery |-> trim(reverseMatch(request)[1]),
          assignmentQuery |-> trim(reverseMatch(request)[2])]>>
  ELSE << >>

\* -------------------------------------------------------- inputs of the tools

\* course lists an LMS can return: every course at most once, in any order
CanvasCourseLists ==
  {cs \in UNION {[1..n -> Courses] : n \in 0..MaxCourses} :
     \A i, k \in 1..Len(cs) : i # k => cs[i] # cs[k]}

\* instructor list followed by student list: the same course may occur twice
GradescopeCourseLists ==
  UNION {[1..n -> {[id |-> g, name |-> g] : g \in GsCourses}] : n \in 0..MaxGs}

\* name similarities of the two catalogues, in hundredths
ScoreTables ==
  { [c \in Courses |-> [g \in GsCourses |-> IF c = g THEN 100 ELSE 0]],
    [c \in Courses |-> [g \in GsCourses |-> 80]],
    [c \in Courses |-> [g \in GsCourses |-> 49]] }

Elapsed == 0..1

\* ------------------------------------------------------------------- state

\* mapperCall: the last direct call of a CourseMapper method, its course
\* argument and the value it returned
NoCall == [op |-> "none", course |-> 0, ret |-> << >>]

\* call: a function of the repository called on its own: which one, its
\* arguments, and the value it has returned (<< >> while it has not)
NoArgs == [fn |-> "none", args |-> << >>, ret |-> << >>]

\* the server after construction: no session, draft, mapping or upload
Fresh ==
  /\ sessions = << >>
  /\ heap = << >>
  /\ drafts = [k \in Keys |-> 0]
  /\ courseMappings = << >>
  /\ assignmentMappings = [c \in MapCourses |-> << >>]
  /\ mapperCall = NoCall
  /\ uploads = << >>
  /\ now = 0

Init == Fresh /\ call = NoArgs

\* new Date(): the wall clock has advanced by dt since it was last read
Clock(dt) == now + dt <= MaxTime /\ now' = now + dt

\* entries in the audit logs of all sessions together
RECURSIVE TotalLog(_)
TotalLog(ss) == IF ss = << >> THEN 0 ELSE Len(Head(ss).logs) + TotalLog(Tail(ss))

\* workflowOrchestrator.getSession(session_id) finds a session
Exists(sid) == sid \in 1..Len(sessions)

\* ------------------------------------------------------ workflow tool handlers

\* request.match gone wrong: every request is taken to have the two parts
parses_always(request) == TRUE

\* fromMatch || reverseMatch: the request splits into the two queries
parses(request) == request = "parseable"

\* case "start_assignment", logged in to the LMS (not logged in, the handler
\* returns before it creates anything: a stuttering step).
\* request: "parseable" matches fromMatch or reverseMatch
\* (both yield the two queries), "unparseable" matches neither.  courseRes / assignRes: -1 the LMS call throws,
\* 0 the matcher returns null, else the resolved id; analysisRes: "throw"
\* (getAssignment throws), "not_automatable", or the format of the context.
\* lmsCalls: the canvasClient requests (getCourses, getAssignments,
\* getAssignment) the handler has made when it returns
startOutcome(request, courseRes, assignRes, analysisRes) ==
  LET s0 == createSession(request) IN
  IF ~parses(request)
  THEN [session |-> recordError(s0, "Could not parse request"), result |-> "parse_error",
        lmsCalls |-> 0]
  ELSE IF courseRes = -1 THEN [session |-> s0, result |-> "exception", lmsCalls |-> 1]
  ELSE IF courseRes = 0
  THEN [session |-> recordError(s0, "Could not find course"), result |-> "no_course",
        lmsCalls |-> 1]
  ELSE LET s1 == setCourse(s0, courseRes) IN
  IF assignRes = -1 THEN [session |-> s1, result |-> "exception", lmsCalls |-> 2]
  ELSE IF assignRes = 0
  THEN [session |-> recordError(s1, "Could not find assignment"), result |-> "no_assignment",
        lmsCalls |-> 2]
  ELSE LET s2 == setAssignment(s1, assignRes) IN
  IF analysisRes = "throw" THEN [session |-> s2, result |-> "exception", lmsCalls |-> 3]
  ELSE LET s3 == setAnalysis(s2, IF analysisRes = "not_automatable"
                                 THEN "not_automatable" ELSE "automatable") IN
  IF analysisRes = "not_automatable"
  THEN [session |-> recordError(s3, "Assignment cannot be automated"),
        result |-> "not_automatable", lmsCalls |-> 3]
  ELSE [session |-> setSolutionContext(s3, analysisRes), result |-> "ok", lmsCalls |-> 3]

start_assignment(request, courseRes, assignRes, analysisRes, dt) ==
  /\ Len(sessions) < MaxSessions
  /\ Clock(dt)
  /\ LET out == startOutcome(request, courseRes, assignRes, analysisRes) IN
     sessions' = Append(sessions, out.session)
  /\ UNCHANGED <<heap, drafts, courseMappings, assignmentMappings, mapperCall, call, uploads>>

\* the check gone wrong: the solution context is not asked for
incomplete_noContext(session) == session.canvasAssignment = 0

\* !session.canvasAssignment || !session.solutionContext
incomplete(session) == session.canvasAssignment = 0 \/ session.solutionContext = "none"

\* case "save_and_review"
save_and_review(sid, content, dt) ==
  /\ IF ~Exists(sid)
     THEN UNCHANGED <<sessions, heap, drafts, now>>
     ELSE IF incomplete(sessions[sid])
     THEN UNCHANGED <<sessions, heap, drafts, now>>
     ELSE /\ Len(heap) < MaxDrafts
          /\ Clock(dt)
          /\ LET saved == saveDraft(heap, drafts, sessions[sid].canvasAssignment,
                                    sessions[sid].canvasCourse, content) IN
             /\ heap' = saved.heap
             /\ drafts' = saved.drafts
             /\ sessions' = [sessions EXCEPT ![sid] = setDraft(@, saved.draft)]
  /\ UNCHANGED <<courseMappings, assignmentMappings, mapperCall, call, uploads>>

\* case "submit_assignment", from the mapping lookup on.  file_path: whether the
\* argument is given; userFile: what the file at file_path holds (0 = no such
\* file); gsRes: getAssignments "throw"s, finds "nomatch" or a "match";
\* upRes: uploadSubmission "throw"s, is rejected ("fail") or succeeds ("ok")
submitOutcome(sid, file_path, userFile, gsRes, upRes, url) ==
  LET session == sessions[sid]
      courseMapping == getMappingForCanvasCourse(courseMappings, session.canvasCourse)
      s1 == IF ~file_path /\ session.solutionContext = "code"
            THEN log(session, "submit_assignment", "Created temp file", TRUE, "none")
            ELSE session
      file == IF file_path THEN userFile ELSE heap[session.draft].content
      s2 == log(s1, "submit_assignment", "Submitting to Gradescope assignment", TRUE, "none")
      upload == [session |-> sid,
                 course |-> courseMappings[courseMapping].gradescopeCourseId,
                 file |-> file]
      recorded == recordSubmission(s2, heap, url)
  IN
  IF courseMapping = 0
  THEN [session |-> session, heap |-> heap, uploads |-> uploads, result |-> "no_mapping"]
  ELSE IF gsRes = "throw"
  THEN [session |-> s1, heap |-> heap, uploads |-> uploads, result |-> "exception"]
  ELSE IF gsRes = "nomatch"
  THEN [session |-> s1, heap |-> heap, uploads |-> uploads, result |-> "no_gs_match"]
  ELSE IF upRes = "throw"
  THEN [session |-> s2, heap |-> heap, uploads |-> Append(uploads, upload),
        result |-> "exception"]
  ELSE IF file = 0
  THEN [session |-> recordError(s2, "File not found"), heap |-> heap,
        uploads |-> Append(uploads, upload), result |-> "upload_failed"]
  ELSE IF upRes = "fail"
  THEN [session |-> recordError(s2, "Upload failed"), heap |-> heap,
        uploads |-> Append(uploads, upload), result |-> "upload_failed"]
  ELSE [session |-> recorded.session, heap |-> recorded.heap,
        uploads |-> Append(uploads, upload), result |-> "ok"]

\* the checks gone wrong: the status of the draft is not looked at
submitRefusal_noApproval(sid) ==
  IF ~Exists(sid) THEN "session_not_found"
  ELSE IF sessions[sid].draft = 0 THEN "no_draft"
  ELSE "none"

\* the checks gone wrong: a draft already submitted passes like an approved one
submitRefusal_afterSubmission(sid) ==
  IF ~Exists(sid) THEN "session_not_found"
  ELSE IF sessions[sid].draft = 0 THEN "no_draft"
  ELSE IF heap[sessions[sid].draft].status \notin {"approved", "submitted"}
  THEN "not_approved"
  ELSE "none"

\* the checks of submit_assignment that come before the mapping lookup
submitRefusal(sid) ==
  IF ~Exists(sid) THEN "session_not_found"
  ELSE IF sessions[sid].draft = 0 THEN "no_draft"
  ELSE IF heap[sessions[sid].draft].status # "approved" THEN "not_approved"
  ELSE "none"

submit_assignment(sid, file_path, userFile, gsRes, upRes, url, dt) ==
  /\ IF submitRefusal(sid) # "none"
     THEN UNCHANGED <<sessions, heap, uploads, now>>
     ELSE /\ Clock(dt)
          /\ LET out == submitOutcome(sid, file_path, userFile, gsRes, upRes, url) IN
             /\ sessions' = [sessions EXCEPT ![sid] = out.session]
             /\ heap' = out.heap
             /\ uploads' = out.uploads
  /\ UNCHANGED <<drafts, courseMappings, assignmentMappings, mapperCall, call>>

\* --------------------------------------------------------- draft tool handlers

\* case "save_draft".  res: "throw" (not logged in, or getAssignment throws)
\* or "ok"
save_draft(course_id, assignment_id, content, res, dt) ==
  /\ IF res = "throw"
     THEN UNCHANGED <<heap, drafts, now>>
     ELSE /\ Len(heap) < MaxDrafts
          /\ Clock(dt)
          /\ LET saved == saveDraft(heap, drafts, assignment_id, course_id, content) IN
             /\ heap' = saved.heap
             /\ drafts' = saved.drafts
  /\ UNCHANGED <<sessions, courseMappings, assignmentMappings, mapperCall, call, uploads>>

\* case "update_draft"
update_draft(course_id, assignment_id, content, dt) ==
  /\ IF getDraft(drafts, course_id, assignment_id) = 0
     THEN UNCHANGED <<heap, now>>
     ELSE /\ Clock(dt)
          /\ heap' = updateDraftContent(heap, drafts, course_id, assignment_id, content)
  /\ UNCHANGED <<sessions, drafts, courseMappings, assignmentMappings, mapperCall, call, uploads>>

\* case "approve_draft"
approve_draft(course_id, assignment_id, dt) ==
  /\ IF getDraft(drafts, course_id, assignment_id) = 0
     THEN UNCHANGED <<heap, now>>
     ELSE /\ Clock(dt)
          /\ heap' = updateDraftStatus(heap, drafts, course_id, assignment_id, "approved")
  /\ UNCHANGED <<sessions, drafts, courseMappings, assignmentMappings, mapperCall, call, uploads>>

\* case "delete_draft"
delete_draft(course_id, assignment_id) ==
  /\ drafts' = deleteDraft(drafts, course_id, assignment_id)
  /\ UNCHANGED <<sessions, heap, courseMappings, assignmentMappings, mapperCall, call, uploads, now>>

\* ------------------------------------------------------- mapping tool handlers

\* case "auto_match_courses" (both clients logged in and answering)
auto_match_courses(canvasCourses, gradescopeCourses, score) ==
  /\ courseMappings' = storeMatched(courseMappings,
                          autoMatchCourses(canvasCourses, gradescopeCourses, score).matched)
  /\ UNCHANGED <<sessions, heap, drafts, assignmentMappings, mapperCall, call, uploads, now>>

\* case "exclude_course"
exclude_course(canvas_course_id) ==
  /\ courseMappings' = excludeCourse(courseMappings, canvas_course_id)
  /\ UNCHANGED <<sessions, heap, drafts, assignmentMappings, mapperCall, call, uploads, now>>

\* case "include_course"
include_course(canvas_course_id) ==
  /\ courseMappings' = includeCourse(courseMappings, canvas_course_id)
  /\ UNCHANGED <<sessions, heap, drafts, assignmentMappings, mapperCall, call, uploads, now>>

\* ------------------------------------------------- the server: any tool call

\* the inputs of start_assignment that the handler gets to read: what follows a
\* failed step is never asked for
StartInputs ==
  {in \in [request : Requests, courseRes : {-1, 0} \cup Courses,
           assignRes : {-1, 0} \cup Assignments,
           analysisRes : {"throw", "not_automatable"} \cup Formats] :
     /\ in.request = "unparseable" => in.courseRes = -1
     /\ in.courseRes <= 0 => in.assignRes = -1
     /\ in.assignRes <= 0 => in.analysisRes = "throw"}

\* the logs of all sessions together stay within the budget
LogBudget == TotalLog(sessions') <= MaxLog

\* the uploads of a behaviour are bounded
UploadBudget == Len(uploads') <= MaxUploads

StartAssignment ==
  /\ \E in \in StartInputs, dt \in Elapsed :
       start_assignment(in.request, in.courseRes, in.assignRes, in.analysisRes, dt)
  /\ LogBudget

SaveAndReview ==
  /\ \E sid \in 1..MaxSessions, content \in Contents, dt \in Elapsed :
       save_and_review(sid, content, dt)
  /\ LogBudget

\* the inputs of submit_assignment that the handler gets to read
SubmitInputs ==
  {in \in [file_path : BOOLEAN, userFile : 0..MaxContent,
           gsRes : {"throw", "nomatch", "match"}, upRes : {"throw", "fail", "ok"},
           url : Urls] :
     /\ ~in.file_path => in.userFile = 0
     /\ in.gsRes # "match" => in.upRes = "throw"
     /\ in.upRes # "ok" => in.url = ""}

SubmitAssignment ==
  /\ \E sid \in 1..MaxSessions :
       IF submitRefusal(sid) # "none"
       THEN submit_assignment(sid, FALSE, 0, "throw", "throw", "", 0)
       ELSE \E in \in SubmitInputs, dt \in Elapsed :
              submit_assignment(sid, in.file_path, in.userFile, in.gsRes, in.upRes, in.url, dt)
  /\ LogBudget
  /\ UploadBudget

SaveDraft ==
  \E k \in Keys, content \in Contents, res \in {"throw", "ok"}, dt \in Elapsed :
    save_draft(k[1], k[2], content, res, dt)

UpdateDraft ==
  \E k \in Keys, content \in Contents, dt \in Elapsed : update_draft(k[1], k[2], content, dt)

ApproveDraft == \E k \in Keys, dt \in Elapsed : approve_draft(k[1], k[2], dt)

DeleteDraft == \E k \in Keys : delete_draft(k[1], k[2])

AutoMatchCourses ==
  \E canvasCourses \in CanvasCourseLists, gradescopeCourses \in GradescopeCourseLists,
     score \in ScoreTables :
    auto_match_courses(canvasCourses, gradescopeCourses, score)

ExcludeCourse == \E c \in Courses : exclude_course(c)

IncludeCourse == \E c \in Courses : include_course(c)

Next ==
  \/ StartAssignment
  \/ SaveAndReview
  \/ SubmitAssignment
  \/ SaveDraft
  \/ UpdateDraft
  \/ ApproveDraft
  \/ DeleteDraft
  \/ AutoMatchCourses
  \/ ExcludeCourse
  \/ IncludeCourse

Spec == Init /\ [][Next]_vars

\* ------------------------------------------------------------------------
\* The documented workflow (start_assignment, save_and_review, approve_draft,
\* submit_assignment, after auto_match_courses) run for two sessions at once:
\* the LMS answers and both requests resolve, to the same course and assignment.

FlowStartInputs ==
  {in \in StartInputs : in.request = "parseable" /\ in.analysisRes \in Formats}

FlowBudget == TotalLog(sessions') <= MaxFlowLog

FlowStartAssignment ==
  /\ \E in \in FlowStartInputs, dt \in Elapsed :
       start_assignment(in.request, in.courseRes, in.assignRes, in.analysisRes, dt)
  /\ FlowBudget

FlowSaveAndReview ==
  /\ \E sid \in 1..MaxSessions, content \in Contents, dt \in Elapsed :
       save_and_review(sid, content, dt)
  /\ FlowBudget

FlowSubmitAssignment ==
  /\ \E sid \in 1..MaxSessions :
       IF submitRefusal(sid) # "none"
       THEN submit_assignment(sid, FALSE, 0, "throw", "throw", "", 0)
       ELSE \E in \in SubmitInputs, dt \in Elapsed :
              submit_assignment(sid, in.file_path, in.userFile, in.gsRes, in.upRes, in.url, dt)
  /\ FlowBudget
  /\ UploadBudget

NextFlow ==
  \/ FlowStartAssignment
  \/ FlowSaveAndReview
  \/ ApproveDraft
  \/ FlowSubmitAssignment
  \/ AutoMatchCourses

SpecFlow == Init /\ [][NextFlow]_vars

\* ------------------------------------------------------------------------
\* A session worked on after its submission: the workflow tools with room for
\* a second upload, the LMS answering and the request resolving.

ResubmitBudget ==
  /\ Len(sessions') <= MaxResubmitSessions
  /\ TotalLog(sessions') <= MaxResubmitLog
  /\ Len(uploads') <= MaxResubmitUploads

ResubmitStartAssignment ==
  /\ \E in \in FlowStartInputs, dt \in Elapsed :
       start_assignment(in.request, in.courseRes, in.assignRes, in.analysisRes, dt)
  /\ ResubmitBudget

ResubmitSaveAndReview ==
  /\ \E sid \in 1..MaxSessions, content \in Contents, dt \in Elapsed :
       save_and_review(sid, content, dt)
  /\ ResubmitBudget

ResubmitSubmitAssignment ==
  /\ \E sid \in 1..MaxSessions :
       IF submitRefusal(sid) # "none"
       THEN submit_assignment(sid, FALSE, 0, "throw", "throw", "", 0)
       ELSE \E in \in SubmitInputs, dt \in Elapsed :
              submit_assignment(sid, in.file_path, in.userFile, in.gsRes, in.upRes, in.url, dt)
  /\ ResubmitBudget

NextResubmit ==
  \/ ResubmitStartAssignment
  \/ ResubmitSaveAndReview
  \/ UpdateDraft
  \/ ApproveDraft
  \/ ResubmitSubmitAssignment
  \/ AutoMatchCourses

SpecResubmit == Init /\ [][NextResubmit]_vars

\* ------------------------------------------------------------------------
\* The orchestrator, the draft store and the mapping store called directly,
\* method by method, as a caller of the classes (a unit test) does.

OrchClock(dt) == now + dt <= MaxOrchTime /\ now' = now + dt

ErrorMessages == {"Could not parse request", "Upload failed"}

OrchCreateSession(request, dt) ==
  /\ Len(sessions) < MaxSessions
  /\ TotalLog(sessions) < MaxOrchLog
  /\ OrchClock(dt)
  /\ sessions' = Append(sessions, createSession(request))
  /\ UNCHANGED <<heap, drafts, courseMappings, assignmentMappings, mapperCall, call, uploads>>

\* a method that touches one session only
OrchSessionCall(sid, dt, after) ==
  /\ Exists(sid)
  /\ TotalLog(sessions) < MaxOrchLog
  /\ OrchClock(dt)
  /\ sessions' = [sessions EXCEPT ![sid] = after]
  /\ UNCHANGED <<heap, drafts, courseMappings, assignmentMappings, mapperCall, call, uploads>>

OrchSetCourse(sid, course, dt) == OrchSessionCall(sid, dt, setCourse(sessions[sid], course))

OrchSetAssignment(sid, assignment, dt) ==
  OrchSessionCall(sid, dt, setAssignment(sessions[sid], assignment))

OrchSetAnalysis(sid, analysis, dt) ==
  OrchSessionCall(sid, dt, setAnalysis(sessions[sid], analysis))

OrchSetSolutionContext(sid, context, dt) ==
  OrchSessionCall(sid, dt, setSolutionContext(sessions[sid], context))

\* draft: any Draft object the generator has handed out
OrchSetDraft(sid, draft, dt) == OrchSessionCall(sid, dt, setDraft(sessions[sid], draft))

OrchRecordError(sid, error, dt) == OrchSessionCall(sid, dt, recordError(sessions[sid], error))

\* approveDraft reads the clock only when there is a draft
OrchApproveDraft(sid, dt) ==
  /\ Exists(sid)
  /\ IF sessions[sid].draft = 0
     THEN /\ UNCHANGED now
          /\ sessions' = [sessions EXCEPT ![sid] = approveDraft(sessions[sid], heap).session]
          /\ heap' = approveDraft(sessions[sid], heap).heap
     ELSE /\ TotalLog(sessions) < MaxOrchLog
          /\ OrchClock(dt)
          /\ sessions' = [sessions EXCEPT ![sid] = approveDraft(sessions[sid], heap).session]
          /\ heap' = approveDraft(sessions[sid], heap).heap
  /\ UNCHANGED <<drafts, courseMappings, assignmentMappings, mapperCall, call, uploads>>

OrchRecordSubmission(sid, url, dt) ==
  /\ Exists(sid)
  /\ TotalLog(sessions) < MaxOrchLog
  /\ OrchClock(dt)
  /\ sessions' = [sessions EXCEPT ![sid] = recordSubmission(sessions[sid], heap, url).session]
  /\ heap' = recordSubmission(sessions[sid], heap, url).heap
  /\ UNCHANGED <<drafts, courseMappings, assignmentMappings, mapperCall, call, uploads>>

GenSaveDraft(courseId, assignmentId, content, dt) ==
  /\ Len(heap) < MaxDrafts
  /\ OrchClock(dt)
  /\ heap' = saveDraft(heap, drafts, assignmentId, courseId, content).heap
  /\ drafts' = saveDraft(heap, drafts, assignmentId, courseId, content).drafts
  /\ UNCHANGED <<sessions, courseMappings, assignmentMappings, mapperCall, call, uploads>>

MapAutoMatchCourses(canvasCourses, gradescopeCourses, score) ==
  auto_match_courses(canvasCourses, gradescopeCourses, score)

OrchSessionMethod ==
  \E sid \in 1..MaxSessions, dt \in Elapsed :
    \/ \E course \in Courses : OrchSetCourse(sid, course, dt)
    \/ \E assignment \in Assignments : OrchSetAssignment(sid, assignment, dt)
    \/ \E analysis \in {"automatable", "not_automatable"} : OrchSetAnalysis(sid, analysis, dt)
    \/ \E context \in Formats : OrchSetSolutionContext(sid, context, dt)

NextOrch ==
  \/ \E request \in {"parseable"}, dt \in Elapsed : OrchCreateSession(request, dt)
  \/ OrchSessionMethod
  \/ \E sid \in 1..MaxSessions, draft \in 1..Len(heap), dt \in Elapsed :
       OrchSetDraft(sid, draft, dt)
  \/ \E sid \in 1..MaxSessions, dt \in Elapsed : OrchApproveDraft(sid, dt)
  \/ \E sid \in 1..MaxSessions, url \in Urls, dt \in Elapsed : OrchRecordSubmission(sid, url, dt)
  \/ \E sid \in 1..MaxSessions, error \in ErrorMessages, dt \in Elapsed :
       OrchRecordError(sid, error, dt)
  \/ \E k \in Keys, content \in Contents, dt \in Elapsed : GenSaveDraft(k[1], k[2], content, dt)
  \/ \E canvasCourses \in CanvasCourseLists, gradescopeCourses \in GradescopeCourseLists,
        score \in ScoreTables : MapAutoMatchCourses(canvasCourses, gradescopeCourses, score)

SpecOrch == Init /\ [][NextOrch]_vars

\* ------------------------------------------------------------------------
\* The mapping store called directly, method by method.

\* source course lists: every course at most once, in any order
MapCanvasCourseLists ==
  {cs \in UNION {[1..n -> MapCourses] : n \in 0..MaxMapCourses} :
     \A i, k \in 1..Len(cs) : i # k => cs[i] # cs[k]}

\* target lists: entries may share an id, whatever their names
MapTargetLists ==
  UNION {[1..n -> [id : MapGsIds, name : MapNames]] : n \in 0..MaxMapList}

\* similarities around the threshold of the courses
MapCourseScores == [MapCourses -> [MapNames -> {CourseThreshold - 1, CourseThreshold, 80}]]

MapCanvasAssignmentLists ==
  {as \in UNION {[1..n -> MapAssignments] : n \in 0..MaxMapAssignments} :
     \A i, k \in 1..Len(as) : i # k => as[i] # as[k]}

\* similarities around the threshold of the assignments
MapAssignmentScores ==
  [MapAssignments -> [MapNames -> {AssignmentThreshold - 1, AssignmentThreshold, 80}]]

MapperFrame == UNCHANGED <<sessions, heap, drafts, call, uploads, now>>

MapperAutoMatchCourses(canvasCourses, gradescopeCourses, score) ==
  LET result == autoMatchCourses(canvasCourses, gradescopeCourses, score) IN
  /\ courseMappings' = storeMatched(courseMappings, result.matched)
  /\ mapperCall' = [op |-> "autoMatchCourses", course |-> 0, ret |-> result.matched]
  /\ UNCHANGED assignmentMappings
  /\ MapperFrame

MapperManualMapCourse(canvasCourse, gradescopeCourse) ==
  /\ courseMappings' = manualMapCourse(courseMappings, canvasCourse, gradescopeCourse)
  /\ mapperCall' = [op |-> "manualMapCourse", course |-> canvasCourse,
                    ret |-> [canvasCourseId |-> canvasCourse,
                             gradescopeCourseId |-> gradescopeCourse.id,
                             gradescopeCourseName |-> gradescopeCourse.name,
                             excluded |-> FALSE]]
  /\ UNCHANGED assignmentMappings
  /\ MapperFrame

MapperExcludeCourse(canvasCourseId) ==
  /\ courseMappings' = excludeCourse(courseMappings, canvasCourseId)
  /\ mapperCall' = [op |-> "excludeCourse", course |-> canvasCourseId,
                    ret |-> findMapping(courseMappings, canvasCourseId) # 0]
  /\ UNCHANGED assignmentMappings
  /\ MapperFrame

MapperIncludeCourse(canvasCourseId) ==
  /\ courseMappings' = includeCourse(courseMappings, canvasCourseId)
  /\ mapperCall' = [op |-> "includeCourse", course |-> canvasCourseId,
                    ret |-> findMapping(courseMappings, canvasCourseId) # 0]
  /\ UNCHANGED assignmentMappings
  /\ MapperFrame

MapperAutoMatchAssignments(canvasCourseId, canvasAssignments, gradescopeAssignments, score) ==
  LET result == autoMatchAssignments(canvasAssignments, gradescopeAssignments, score) IN
  /\ assignmentMappings' = setAssignmentMappings(assignmentMappings, canvasCourseId,
                                                 result.matched)
  /\ mapperCall' = [op |-> "autoMatchAssignments", course |-> canvasCourseId,
                    ret |-> result.matched]
  /\ UNCHANGED courseMappings
  /\ MapperFrame

NextMap ==
  \/ \E canvasCourses \in MapCanvasCourseLists, gradescopeCourses \in MapTargetLists,
        score \in MapCourseScores :
       MapperAutoMatchCourses(canvasCourses, gradescopeCourses, score)
  \/ \E c \in MapCourses, g \in [id : MapGsIds, name : MapNames] :
       MapperManualMapCourse(c, g)
  \/ \E c \in MapCourses : MapperExcludeCourse(c)
  \/ \E c \in MapCourses : MapperIncludeCourse(c)

SpecMap == Init /\ [][NextMap]_vars

\* the assignment mappings of the courses, next to hand-made course mappings
NextAssign ==
  \/ \E c \in MapCourses, canvasAssignments \in MapCanvasAssignmentLists,
        gradescopeAssignments \in MapTargetLists, score \in MapAssignmentScores :
       MapperAutoMatchAssignments(c, canvasAssignments, gradescopeAssignments, score)
  \/ \E c \in MapCourses, g \in [id : MapGsIds, name : MapNames] :
       MapperManualMapCourse(c, g)
  \/ \E c \in MapCourses : MapperExcludeCourse(c)
  \/ \E c \in MapCourses : MapperIncludeCourse(c)

SpecAssign == Init /\ [][NextAssign]_vars

\* ------------------------------------------------------------------------
\* The draft store called directly, method by method, for two assignments of
\* a course.

GenKeys == Courses \X (1..MaxGenAssignments)

InitDrafts ==
  /\ sessions = << >>
  /\ heap = << >>
  /\ drafts = [k \in GenKeys |-> 0]
  /\ courseMappings = << >>
  /\ assignmentMappings = [c \in MapCourses |-> << >>]
  /\ mapperCall = NoCall
  /\ call = NoArgs
  /\ uploads = << >>
  /\ now = 0

\* the status the callers of updateDraftStatus pass
PassedStatuses == {"approved"}

GenClock(dt) == now + dt <= MaxGenTime /\ now' = now + dt

GenFrame == UNCHANGED <<sessions, courseMappings, assignmentMappings, mapperCall, uploads>>

DraftsSaveDraft(courseId, assignmentId, content, dt) ==
  /\ Len(heap) < MaxGenDrafts
  /\ GenClock(dt)
  /\ LET saved == saveDraft(heap, drafts, assignmentId, courseId, content) IN
     /\ heap' = saved.heap
     /\ drafts' = saved.drafts
     /\ call' = [fn |-> "saveDraft", args |-> <<courseId, assignmentId, content>>,
                 ret |-> <<saved.draft>>]
  /\ GenFrame

DraftsUpdateDraftStatus(courseId, assignmentId, status, dt) ==
  /\ IF getDraft(drafts, courseId, assignmentId) = 0
     THEN UNCHANGED <<heap, now>>
     ELSE /\ GenClock(dt)
          /\ heap' = updateDraftStatus(heap, drafts, courseId, assignmentId, status)
  /\ call' = [fn |-> "updateDraftStatus", args |-> <<courseId, assignmentId, status>>,
              ret |-> <<getDraft(drafts, courseId, assignmentId)>>]
  /\ UNCHANGED drafts
  /\ GenFrame

DraftsUpdateDraftContent(courseId, assignmentId, content, dt) ==
  /\ IF getDraft(drafts, courseId, assignmentId) = 0
     THEN UNCHANGED <<heap, now>>
     ELSE /\ GenClock(dt)
          /\ heap' = updateDraftContent(heap, drafts, courseId, assignmentId, content)
  /\ call' = [fn |-> "updateDraftContent", args |-> <<courseId, assignmentId, content>>,
              ret |-> <<getDraft(drafts, courseId, assignmentId)>>]
  /\ UNCHANGED drafts
  /\ GenFrame

DraftsDeleteDraft(courseId, assignmentId) ==
  /\ drafts' = deleteDraft(drafts, courseId, assignmentId)
  /\ call' = [fn |-> "deleteDraft", args |-> <<courseId, assignmentId>>,
              ret |-> <<getDraft(drafts, courseId, assignmentId) # 0>>]
  /\ UNCHANGED <<heap, now>>
  /\ GenFrame

NextDrafts ==
  \/ \E k \in GenKeys, content \in Contents, dt \in Elapsed :
       DraftsSaveDraft(k[1], k[2], content, dt)
  \/ \E k \in GenKeys, status \in PassedStatuses, dt \in Elapsed :
       DraftsUpdateDraftStatus(k[1], k[2], status, dt)
  \/ \E k \in GenKeys, content \in Contents, dt \in Elapsed :
       DraftsUpdateDraftContent(k[1], k[2], content, dt)
  \/ \E k \in GenKeys : DraftsDeleteDraft(k[1], k[2])

SpecDrafts == InitDrafts /\ [][NextDrafts]_vars

\* ------------------------------------------------------------------------
\* All the methods of the mapping store together, on catalogues whose names
\* either all match or all fail to match.

StoreTargetLists ==
  {<< >>, <<[id |-> 1, name |-> 1]>>,
   <<[id |-> 1, name |-> 1], [id |-> MaxMapGs, name |-> MaxMapNames]>>}

StoreCourseScores ==
  {[c \in MapCourses |-> [n \in MapNames |-> x]] : x \in {CourseThreshold - 1, 80}}

StoreAssignmentScores ==
  {[a \in MapAssignments |-> [n \in MapNames |-> x]] : x \in {AssignmentThreshold - 1, 80}}

NextStore ==
  \/ \E canvasCourses \in MapCanvasCourseLists, gradescopeCourses \in StoreTargetLists,
        score \in StoreCourseScores :
       MapperAutoMatchCourses(canvasCourses, gradescopeCourses, score)
  \/ \E c \in MapCourses, canvasAssignments \in MapCanvasAssignmentLists,
        gradescopeAssignments \in StoreTargetLists, score \in StoreAssignmentScores :
       MapperAutoMatchAssignments(c, canvasAssignments, gradescopeAssignments, score)
  \/ \E c \in MapCourses, g \in [id : MapGsIds, name : MapNames] :
       MapperManualMapCourse(c, g)
  \/ \E c \in MapCourses : MapperExcludeCourse(c)
  \/ \E c \in MapCourses : MapperIncludeCourse(c)

SpecStore == Init /\ [][NextStore]_vars

\* ------------------------------------------------------------------------
\* The two matchers called once each on prepared arguments.

MatchCalls ==
  {[fn |-> "autoMatchCourses", args |-> <<canvasCourses, gradescopeCourses, score>>,
    ret |-> << >>] :
     canvasCourses \in MapCanvasCourseLists, gradescopeCourses \in MapTargetLists,
     score \in MapCourseScores}
  \cup
  {[fn |-> "autoMatchAssignments",
    args |-> <<canvasCourseId, canvasAssignments, gradescopeAssignments, score>>,
    ret |-> << >>] :
     canvasCourseId \in MapCourses, canvasAssignments \in MapCanvasAssignmentLists,
     gradescopeAssignments \in MapTargetLists, score \in MapAssignmentScores}

InitMatch == Fresh /\ call \in MatchCalls

\* the call stores the matched list and returns { matched, unmatched }
CallAutoMatchCourses ==
  /\ call.fn = "autoMatchCourses"
  /\ LET result == autoMatchCourses(call.args[1], call.args[2], call.args[3]) IN
     /\ courseMappings' = storeMatched(courseMappings, result.matched)
     /\ mapperCall' = [op |-> "autoMatchCourses", course |-> 0, ret |-> result.matched]
     /\ call' = [call EXCEPT !.ret = <<result>>]
  /\ UNCHANGED <<sessions, heap, drafts, assignmentMappings, uploads, now>>

CallAutoMatchAssignments ==
  /\ call.fn = "autoMatchAssignments"
  /\ LET result == autoMatchAssignments(call.args[2], call.args[3], call.args[4]) IN
     /\ assignmentMappings' = setAssignmentMappings(assignmentMappings, call.args[1],
                                                    result.matched)
     /\ mapperCall' = [op |-> "autoMatchAssignments", course |-> call.args[1],
                       ret |-> result.matched]
     /\ call' = [call EXCEPT !.ret = <<result>>]
  /\ UNCHANGED <<sessions, heap, drafts, courseMappings, uploads, now>>

NextMatch == CallAutoMatchCourses \/ CallAutoMatchAssignments

SpecMatch == InitMatch /\ [][NextMatch]_vars

\* ------------------------------------------------------------------------
\* stringSimilarity called once on a pair of strings.

SimilarityCalls ==
  {[fn |-> "stringSimilarity", args |-> <<s1, s2>>, ret |-> << >>] : s1, s2 \in Strings}

InitSim == Fresh /\ call \in SimilarityCalls

CallStringSimilarity ==
  /\ call.fn = "stringSimilarity"
  /\ call.ret = << >>
  /\ call' = [call EXCEPT !.ret = <<stringSimilarity(call.args[1], call.args[2])>>]
  /\ UNCHANGED <<sessions, heap, drafts, courseMappings, assignmentMappings, mapperCall,
                 uploads, now>>

NextSim == CallStringSimilarity

SpecSim == InitSim /\ [][NextSim]_vars

\* ------------------------------------------------------------------------
\* Query resolution called once on a request or a query and a catalogue.

\* courses of the LMS: two offerings of one course that differ in the id
\* only, a course of another department, and a course whose code is spelt
\* out
CS170 == [id |-> 1, name |-> <<"C", "S", " ", "1", "7", "0", ":", " ", "E", "f", "f", "i", "c", "i", "e", "n", "t", " ", "A", "l", "g", "o", "r", "i", "t", "h", "m", "s">>, course_code |-> <<"C", "S", " ", "1", "7", "0">>]
EECS16A == [id |-> 2, name |-> <<"E", "E", "C", "S", " ", "1", "6", "A", ":", " ", "I", "n", "f", "o", "r", "m", "a", "t", "i", "o", "n", " ", "D", "e", "v", "i", "c", "e", "s">>, course_code |-> <<"E", "E", "C", "S", " ", "1", "6", "A">>]
CS170Again == [CS170 EXCEPT !.id = 3]
IntroCS170 == [id |-> 4, name |-> <<"I", "n", "t", "r", "o", "d", "u", "c", "t", "i", "o", "n", " ", "t", "o", " ", "C", "S", " ", "1", "7", "0">>, course_code |-> <<"C", "O", "M", "P", "S", "C", "I", " ", "1", "7", "0">>]

QueryCourses == {CS170, EECS16A, CS170Again, IntroCS170}

CourseQueries ==
  {<<"c", "s", " ", "1", "7", "0">>, <<"C", "S", "1", "7", "0">>, <<"e", "e", "c", "s", " ", "1", "6", "a">>, <<"a", "l", "g", "o", "r", "i", "t", "h", "m", "s">>, <<"e", "f", "f", "i", "c", "i", "e", "n", "t", " ", "d", "e", "v", "i", "c", "e", "s">>, <<"z", "z">>, <<"a">>,
   <<"m", "a", "t", "h", " ", "5", "4">>}

Homework17 == [id |-> 1, name |-> <<"H", "o", "m", "e", "w", "o", "r", "k", " ", "1", "7">>]

QueryAssignments ==
  {Homework17, [id |-> 2, name |-> <<"H", "W", "0", "7">>], [id |-> 3, name |-> <<"L", "a", "b", " ", "7">>],
   [id |-> 4, name |-> <<"H", "o", "m", "e", "w", "o", "r", "k", " ", "7">>], [id |-> 5, name |-> <<"L", "a", "b", " ", "1", "7">>]}

AssignmentQueries ==
  {<<"h", "w", " ", "1", "7">>, <<"h", "o", "m", "e", "w", "o", "r", "k", " ", "7">>, <<"h", "w", " ", "7">>, <<"7">>, <<"1", "7">>, <<"l", "a", "b", " ", "7">>, <<"e", "s", "s", "a", "y">>, <<"p", "s", "e", "t", " ", "#", "7">>,
   <<"p", "r", "o", "b", "l", "e", "m", " ", "s", "e", "t", " ", "1", "7">>, <<"h", "o", "m", "e", "w", "o", "r", "k", " ", "1", "7">>}

StartRequests ==
  {<<"h", "w", " ", "1", "7", " ", "f", "r", "o", "m", " ", "c", "s", " ", "1", "7", "0">>, <<"c", "s", " ", "1", "7", "0", " ", "h", "w", " ", "1", "7">>, <<"c", "o", "m", "p", "l", "e", "t", "e", " ", "l", "a", "b", " ", "7", " ", "f", "o", "r", " ", "e", "e", "c", "s", " ", "1", "6", "a">>, <<"h", "e", "l", "l", "o">>,
   <<"h", "o", "m", "e", "w", "o", "r", "k", " ", "7", " ", "i", "n", " ", "a", "l", "g", "o", "r", "i", "t", "h", "m", "s">>}

\* the lists of at most MaxQueryList different members of a catalogue
Lists(catalogue) ==
  {l \in UNION {[1..n -> catalogue] : n \in 0..MaxQueryList} :
     \A i, k \in 1..Len(l) : i # k => l[i] # l[k]}

QueryCalls ==
  {[fn |-> "findCourse", args |-> <<courses, query>>, ret |-> << >>] :
     courses \in Lists(QueryCourses), query \in CourseQueries}
  \cup
  {[fn |-> "findAssignment", args |-> <<assignments, query>>, ret |-> << >>] :
     assignments \in Lists(QueryAssignments), query \in AssignmentQueries}
  \cup
  {[fn |-> "start_assignment", args |-> <<request, courses>>, ret |-> << >>] :
     request \in StartRequests, courses \in Lists(QueryCourses)}

InitQuery == Fresh /\ call \in QueryCalls

QueryFrame ==
  UNCHANGED <<sessions, heap, drafts, courseMappings, assignmentMappings, mapperCall,
              uploads, now>>

CallFindCourse ==
  /\ call.fn = "findCourse"
  /\ call.ret = << >>
  /\ call' = [call EXCEPT !.ret = <<findCourse(call.args[1], call.args[2])>>]
  /\ QueryFrame

CallFindAssignment ==
  /\ call.fn = "findAssignment"
  /\ call.ret = << >>
  /\ call' = [call EXCEPT !.ret = <<findAssignment(call.args[1], call.args[2])>>]
  /\ QueryFrame

\* case "start_assignment" up to the course it resolves: the two queries
\* and the result of findCourse, or the parse error
CallResolveCourse ==
  /\ call.fn = "start_assignment"
  /\ call.ret = << >>
  /\ LET queries == requestQueries(call.args[1]) IN
     call' = [call EXCEPT !.ret =
                IF queries = << >> THEN <<[error |-> "Could not parse request"]>>
                ELSE <<[courseQuery |-> queries[1].courseQuery,
                        assignmentQuery |-> queries[1].assignmentQuery,
                        courseMatch |-> findCourse(call.args[2], queries[1].courseQuery)]>>]
  /\ QueryFrame

NextQuery == CallFindCourse \/ CallFindAssignment \/ CallResolveCourse

SpecQuery == InitQuery /\ [][NextQuery]_vars

\* ------------------------------------------------------------------------
\* The analyzer called once on an assignment, and its decision table called
\* once on a type and a submission.

AssignmentTypes == {"essay", "reflection", "code", "quiz", "exam", "presentation",
                    "group_project", "discussion", "lab", "homework", "attendance",
                    "unknown"}

ToolNames == {"Gradescope", "Piazza", "PrairieLearn", "zyBooks", "undefined"}

TagSets == {t \in SUBSET SubmissionTags : Cardinality(t) <= MaxTags}

CanvasAssignments ==
  [name : {n \in SUBSET NameWords : Cardinality(n) <= MaxNameWords},
   description : UNION {[1..n -> DescPieces] : n \in 0..MaxDesc},
   submission_types : TagSets]

\* the submissions extractSubmissionInfo can build, whatever the tool
SubmissionInfos ==
  {[types |-> t, isExternalTool |-> "external_tool" \in t, externalToolName |-> n] :
     t \in TagSets, n \in ToolNames}

AnalyzerCalls ==
  {[fn |-> "analyze", args |-> <<assignment>>, ret |-> << >>] :
     assignment \in CanvasAssignments}
  \cup
  {[fn |-> "determineAutomatability", args |-> <<type, submission>>, ret |-> << >>] :
     type \in AssignmentTypes, submission \in SubmissionInfos}

InitAnalyze == Fresh /\ call \in AnalyzerCalls

AnalyzerFrame ==
  UNCHANGED <<sessions, heap, drafts, courseMappings, assignmentMappings, mapperCall,
              uploads, now>>

CallAnalyze ==
  /\ call.fn = "analyze"
  /\ call.ret = << >>
  /\ call' = [call EXCEPT !.ret = <<analyze(call.args[1])>>]
  /\ AnalyzerFrame

CallDetermineAutomatability ==
  /\ call.fn = "determineAutomatability"
  /\ call.ret = << >>
  /\ call' = [call EXCEPT !.ret = <<determineAutomatability(call.args[1], call.args[2])>>]
  /\ AnalyzerFrame

NextAnalyze == CallAnalyze \/ CallDetermineAutomatability

SpecAnalyze == InitAnalyze /\ [][NextAnalyze]_vars

\* ------------------------------------------------------------------------
\* Properties

\* the approval check of submit_assignment passes for the session
Gate(sid) ==
  /\ Exists(sid)
  /\ sessions[sid].draft # 0
  /\ heap[sessions[sid].draft].status = "approved"

\* some submit_assignment call on the session takes this step
SubmitStep(sid) ==
  \E in \in SubmitInputs, dt \in Elapsed :
    submit_assignment(sid, in.file_path, in.userFile, in.gsRes, in.upRes, in.url, dt)

\* C1: submit_assignment invokes uploadSubmission for a session only when the
\* session exists, has a draft and that draft's status is approved at the time
\* of the call; otherwise nothing is uploaded and the session's status stays.
C1_ApprovalGate ==
  [][/\ uploads' # uploads =>
          /\ Len(uploads') = Len(uploads) + 1
          /\ SubSeq(uploads', 1, Len(uploads)) = uploads
          /\ Gate(uploads'[Len(uploads')].session)
     /\ \A sid \in 1..Len(sessions) :
          (~Gate(sid) /\ sessions'[sid].status # sessions[sid].status) => ~SubmitStep(sid)]_vars

\* an upload has been made for a session and has gone through
C1_Witness ==
  \E i \in 1..Len(uploads) :
    /\ sessions[uploads[i].session].status = "submitted"
    /\ heap[sessions[uploads[i].session].draft].status = "submitted"

\* C2: a session that becomes submitted was approved immediately before, and
\* one that becomes approved was awaiting_review immediately before.
C2_StatusOrder ==
  [][\A sid \in 1..Len(sessions) :
       /\ (sessions'[sid].status = "submitted" /\ sessions[sid].status # "submitted")
            => sessions[sid].status = "approved"
       /\ (sessions'[sid].status = "approved" /\ sessions[sid].status # "approved")
            => sessions[sid].status = "awaiting_review"]_vars

\* C3: submitted and failed are terminal: once reached, the status of the
\* session never changes again.
C3_TerminalStatus ==
  [][\A sid \in 1..Len(sessions) :
       sessions[sid].status \in Terminal =>
         sessions'[sid].status = sessions[sid].status]_vars

\* the mapping of the session's LMS course is excluded
Excluded(sid) ==
  LET m == findMapping(courseMappings, sessions[sid].canvasCourse) IN
  m # 0 /\ courseMappings[m].excluded

\* C4: while the mapping of the session's LMS course is excluded,
\* submit_assignment uploads nothing for that session.
C4_ExcludedGate ==
  [][uploads' # uploads => ~Excluded(uploads'[Len(uploads')].session)]_vars

\* what a session shows of itself: status, resolved entities, and the status
\* and content of the draft it holds
SessionView(ss, h, sid) ==
  <<ss[sid].status, ss[sid].canvasCourse, ss[sid].canvasAssignment, ss[sid].draft,
    IF ss[sid].draft # 0 THEN h[ss[sid].draft].status ELSE "none",
    IF ss[sid].draft # 0 THEN h[ss[sid].draft].content ELSE 0>>

\* C5: whenever a call changes the status, a resolved entity or the held
\* draft's status or content of a session, it appends to that session's log.
C5_AuditComplete ==
  [][\A sid \in 1..Len(sessions) :
       SessionView(sessions', heap', sid) # SessionView(sessions, heap, sid) =>
         Len(sessions'[sid].logs) > Len(sessions[sid].logs)]_vars

\* the entries the step has appended to the log include a failure with a message
FailureLogged(before, after) ==
  \E i \in (Len(before) + 1)..Len(after) :
    ~after[i].success /\ after[i].error # "none"

\* C6: every failed workflow tool call on a session leaves an entry with
\* success = false and a message in that session's log.
C6_FailuresLogged ==
  [][/\ \A in \in StartInputs, dt \in Elapsed :
          ( /\ start_assignment(in.request, in.courseRes, in.assignRes, in.analysisRes, dt)
            /\ startOutcome(in.request, in.courseRes, in.assignRes, in.analysisRes).result # "ok" )
          => FailureLogged(<< >>, sessions'[Len(sessions')].logs)
     /\ \A sid \in 1..Len(sessions), in \in SubmitInputs, dt \in Elapsed :
          ( /\ submit_assignment(sid, in.file_path, in.userFile, in.gsRes, in.upRes, in.url, dt)
            /\ sessions'[sid].status # "submitted" )
          => FailureLogged(sessions[sid].logs, sessions'[sid].logs)]_vars

\* the log `before` is an unchanged prefix of the log `after`
IsPrefix(before, after) ==
  /\ Len(before) <= Len(after)
  /\ SubSeq(after, 1, Len(before)) = before

\* entry timestamps never decrease along the log
Ordered(logs) ==
  \A i, j \in 1..Len(logs) : i <= j => logs[i].timestamp <= logs[j].timestamp

\* C7: the log of a session is append-only and ordered: after any operation
\* the previous log is an unchanged prefix of the new one, no session is
\* dropped, and the timestamps are non-decreasing in log order.
C7_LogAppendOnly ==
  [][/\ Len(sessions') >= Len(sessions)
     /\ \A sid \in 1..Len(sessions) :
          /\ IsPrefix(sessions[sid].logs, sessions'[sid].logs)
          /\ Ordered(sessions'[sid].logs)]_vars

\* a log that has grown over a tick of the clock
C7_Witness ==
  \E sid \in 1..Len(sessions) :
    /\ Len(sessions[sid].logs) >= 3
    /\ sessions[sid].logs[1].timestamp < sessions[sid].logs[Len(sessions[sid].logs)].timestamp

\* the session but for its status and its log
Rest(session) == [session EXCEPT !.status = "any", !.logs = << >>]

\* the log has grown by exactly the one entry
Logged(before, after, action, success) ==
  /\ Len(after) = Len(before) + 1
  /\ IsPrefix(before, after)
  /\ after[Len(after)].action = action
  /\ after[Len(after)].success = success
  /\ after[Len(after)].timestamp = now'

\* every session but sid is as it was
OthersUnchanged(sid) ==
  /\ Len(sessions') = Len(sessions)
  /\ \A o \in 1..Len(sessions) : o # sid => sessions'[o] = sessions[o]

\* C8: approveDraft on a session without a draft changes nothing; with a draft
\* it sets the draft status and the session status to approved and appends
\* one log entry, and leaves every other field alone.
C8_ApproveDraft ==
  [][\A sid \in 1..Len(sessions), dt \in Elapsed :
       OrchApproveDraft(sid, dt) =>
         IF sessions[sid].draft = 0
         THEN sessions' = sessions /\ heap' = heap
         ELSE /\ sessions'[sid].status = "approved"
              /\ heap' = [heap EXCEPT ![sessions[sid].draft].status = "approved"]
              /\ Logged(sessions[sid].logs, sessions'[sid].logs, "approve_draft", TRUE)
              /\ Rest(sessions'[sid]) = Rest(sessions[sid])
              /\ OthersUnchanged(sid)]_vars

\* an approved session holding an approved draft, next to one without a draft
C8_Witness ==
  /\ \E sid \in 1..Len(sessions) :
       /\ sessions[sid].status = "approved"
       /\ sessions[sid].draft # 0
       /\ heap[sessions[sid].draft].status = "approved"
       /\ sessions[sid].logs[Len(sessions[sid].logs)].action = "approve_draft"
  /\ \E sid \in 1..Len(sessions) : sessions[sid].draft = 0

\* C9: recordSubmission(url) sets the session status to submitted, stamps
\* completedAt, stores the url, sets the draft status to submitted if and only
\* if there is a draft, and appends one successful log entry.
C9_RecordSubmission ==
  [][\A sid \in 1..Len(sessions), url \in Urls, dt \in Elapsed :
       OrchRecordSubmission(sid, url, dt) =>
         /\ sessions'[sid].status = "submitted"
         /\ sessions'[sid].completedAt = now'
         /\ sessions'[sid].submissionUrl = url
         /\ sessions'[sid].draft = sessions[sid].draft
         /\ heap' = IF sessions[sid].draft # 0
                    THEN [heap EXCEPT ![sessions[sid].draft].status = "submitted"]
                    ELSE heap
         /\ Logged(sessions[sid].logs, sessions'[sid].logs, "submit_assignment", TRUE)
         /\ OthersUnchanged(sid)]_vars

\* a session submitted right after its approval, its draft submitted with it
C9_Witness ==
  \E sid \in 1..Len(sessions) :
    LET logs == sessions[sid].logs IN
    /\ sessions[sid].status = "submitted"
    /\ sessions[sid].completedAt = now
    /\ sessions[sid].draft # 0
    /\ heap[sessions[sid].draft].status = "submitted"
    /\ Len(logs) >= 2
    /\ logs[Len(logs) - 1].action = "approve_draft"
    /\ logs[Len(logs)].action = "submit_assignment"

\* C10: recordError changes only the status (to failed) and the log (one entry
\* with success = false carrying the message) of its session: the resolved
\* fields, the draft, the url, every other session, the draft store and the
\* mapping store stay as they were.
C10_RecordError ==
  [][\A sid \in 1..Len(sessions), error \in ErrorMessages, dt \in Elapsed :
       OrchRecordError(sid, error, dt) =>
         /\ sessions'[sid].status = "failed"
         /\ Logged(sessions[sid].logs, sessions'[sid].logs, "error", FALSE)
         /\ sessions'[sid].logs[Len(sessions'[sid].logs)].error = error
         /\ Rest(sessions'[sid]) = Rest(sessions[sid])
         /\ OthersUnchanged(sid)
         /\ heap' = heap
         /\ drafts' = drafts
         /\ courseMappings' = courseMappings]_vars

\* a failed session that keeps what it had resolved, beside another session
\* and non-empty stores
C10_Witness ==
  /\ Len(sessions) = 2
  /\ courseMappings # << >>
  /\ heap # << >>
  /\ \E sid \in 1..Len(sessions) :
       /\ sessions[sid].status = "failed"
       /\ sessions[sid].canvasCourse # 0
       /\ ~sessions[sid].logs[Len(sessions[sid].logs)].success

\* the session as a caller sees it: its fields and the Draft object it holds
Held(ss, h, sid) ==
  <<ss[sid], IF ss[sid].draft # 0 THEN <<h[ss[sid].draft]>> ELSE << >> >>

\* some save_and_review call on the session takes this step
SaveStep(sid) ==
  \E content \in Contents, dt \in Elapsed : save_and_review(sid, content, dt)

\* C11: a start_assignment, save_and_review or submit_assignment call changes
\* nothing of any session but the one it is addressed to (status, resolved
\* fields, log, and the draft held), also when both sessions work on the same
\* course and assignment.
C11_SessionIndependence ==
  [][\A o \in 1..Len(sessions) :
       Held(sessions', heap', o) # Held(sessions, heap, o) =>
         /\ Len(sessions') = Len(sessions)
         /\ \A sid \in (1..MaxSessions) \ {o} : ~SaveStep(sid) /\ ~SubmitStep(sid)]_vars

\* two sessions on the same course and assignment, each holding its own draft
\* with its own content; one has been submitted, the other is under review
C11_Witness ==
  /\ Len(sessions) = 2
  /\ sessions[1].canvasCourse = sessions[2].canvasCourse
  /\ sessions[1].canvasAssignment = sessions[2].canvasAssignment
  /\ sessions[1].draft # 0 /\ sessions[2].draft # 0
  /\ sessions[1].draft # sessions[2].draft
  /\ heap[sessions[1].draft].content # heap[sessions[2].draft].content
  /\ sessions[1].status = "submitted"
  /\ sessions[2].status = "awaiting_review"
  /\ heap[sessions[2].draft].status = "draft"

\* C12: approve_draft for the course and assignment of a session that holds a
\* draft makes that draft approved (so that submit_assignment passes its
\* approval check), whatever the other session has done in between.
C12_DocumentedWorkflow ==
  [][\A sid \in 1..Len(sessions), dt \in Elapsed :
       ( /\ sessions[sid].draft # 0
         /\ approve_draft(sessions[sid].canvasCourse, sessions[sid].canvasAssignment, dt) )
       => heap'[sessions[sid].draft].status = "approved"]_vars

\* C13: the file handed to uploadSubmission holds the content of the
\* session's approved draft, with and without a file_path.
C13_UploadedFileIsDraft ==
  [][uploads' # uploads =>
       uploads'[Len(uploads')].file =
         heap[sessions[uploads'[Len(uploads')].session].draft].content]_vars

\* the classifier has found the assignment of the session not automatable
NotAutomatable(sid) == sessions[sid].analysis = "not_automatable"

\* C14: a session whose assignment is not automatable is failed with the
\* reason in its log, has no solution context and no draft, is never under
\* review, approved or submitted, and nothing is ever uploaded for it.
C14_NotAutomatable ==
  \A sid \in 1..Len(sessions) :
    NotAutomatable(sid) =>
      /\ sessions[sid].status = "failed"
      /\ sessions[sid].solutionContext = "none"
      /\ sessions[sid].draft = 0
      /\ \E i \in 1..Len(sessions[sid].logs) :
           /\ ~sessions[sid].logs[i].success
           /\ sessions[sid].logs[i].error = "Assignment cannot be automated"
      /\ \A i \in 1..Len(uploads) : uploads[i].session # sid

\* a not automatable session, after a draft for its course and assignment
\* was saved and approved and its course was mapped
C14_Witness ==
  \E sid \in 1..Len(sessions) :
    /\ NotAutomatable(sid)
    /\ courseMappings # << >>
    /\ drafts[<<sessions[sid].canvasCourse, sessions[sid].canvasAssignment>>] # 0
    /\ heap[drafts[<<sessions[sid].canvasCourse, sessions[sid].canvasAssignment>>]].status
         = "approved"

\* the start_assignment inputs whose request has neither shape
ParseFailures == {in \in StartInputs : in.request = "unparseable"}

TargetsDistinct(m) ==
  \A i, k \in 1..Len(m) : i # k => m[i].gradescopeCourseId # m[k].gradescopeCourseId

\* C16: autoMatchCourses never returns or stores two mappings with the same
\* target course id, also for target lists in which an id occurs twice.
C16_OneToOne ==
  mapperCall.op = "autoMatchCourses" =>
    TargetsDistinct(mapperCall.ret) /\ TargetsDistinct(courseMappings)

\* autoMatchCourses has returned one mapping for two source courses that both
\* score above the threshold on both entries of a target list whose two
\* entries have the same id
C16_Witness ==
  /\ mapperCall.op = "autoMatchCourses"
  /\ Len(mapperCall.ret) = 1
  /\ \E canvasCourses \in MapCanvasCourseLists, gradescopeCourses \in MapTargetLists,
        score \in MapCourseScores :
       /\ Len(canvasCourses) = 2 /\ Len(gradescopeCourses) = 2
       /\ gradescopeCourses[1].id = gradescopeCourses[2].id
       /\ gradescopeCourses[1].name # gradescopeCourses[2].name
       /\ \A c \in MapCourses, n \in MapNames : score[c][n] >= CourseThreshold
       /\ autoMatchCourses(canvasCourses, gradescopeCourses, score).matched = mapperCall.ret

\* C17: the store never holds two mappings of the same LMS course.
C17_OneMappingPerCourse ==
  \A i, k \in 1..Len(courseMappings) :
    i # k => courseMappings[i].canvasCourseId # courseMappings[k].canvasCourseId

\* a course mapped by hand a second time, next to the mapping of another course
C17_Witness ==
  /\ mapperCall.op = "manualMapCourse"
  /\ Len(courseMappings) = 2
  /\ courseMappings[1].gradescopeCourseId = courseMappings[2].gradescopeCourseId
  /\ courseMappings[2].canvasCourseId = mapperCall.course

\* the mappings of the list, as a set
Mappings(m) == {m[i] : i \in 1..Len(m)}

\* C18: after autoMatchCourses the store is exactly the returned matched list:
\* every mapping it held before that is not in the returned list is gone.
C18_FullReplace ==
  [][mapperCall'.op = "autoMatchCourses" =>
       /\ courseMappings' = mapperCall'.ret
       /\ \A x \in Mappings(courseMappings) :
            x \notin Mappings(mapperCall'.ret) => x \notin Mappings(courseMappings')]_vars

\* autoMatchCourses has returned and stored a single mapping
C18_Witness ==
  /\ mapperCall.op = "autoMatchCourses"
  /\ Len(mapperCall.ret) = 1
  /\ courseMappings = mapperCall.ret

\* the mappings of the other LMS courses, in their order
OtherMappings(m, canvasCourseId) ==
  SelectSeq(m, LAMBDA x : x.canvasCourseId # canvasCourseId)

\* C19: after manualMapCourse(c, g) the store holds exactly one mapping of c,
\* it targets g, and the mappings of the other courses are as they were.
C19_ManualMapCourse ==
  [][mapperCall'.op = "manualMapCourse" =>
       LET c == mapperCall'.course
           g == mapperCall'.ret.gradescopeCourseId
           mine == SelectSeq(courseMappings', LAMBDA x : x.canvasCourseId = c)
       IN /\ Len(mine) = 1
          /\ mine[1].gradescopeCourseId = g
          /\ OtherMappings(courseMappings', c) = OtherMappings(courseMappings, c)]_vars

\* a course mapped by hand while the other course stays excluded
C19_Witness ==
  /\ mapperCall.op = "manualMapCourse"
  /\ Len(courseMappings) = 2
  /\ courseMappings[1].excluded
  /\ courseMappings[1].canvasCourseId # mapperCall.course
  /\ courseMappings[2].canvasCourseId = mapperCall.course

\* C20: autoMatchAssignments for a course makes the returned list the list of
\* that course and leaves the lists of the other courses and the course
\* mappings alone.
C20_AssignmentsReplaced ==
  [][mapperCall'.op = "autoMatchAssignments" =>
       /\ getAssignmentMappings(assignmentMappings', mapperCall'.course) = mapperCall'.ret
       /\ \A o \in MapCourses \ {mapperCall'.course} :
            assignmentMappings'[o] = assignmentMappings[o]
       /\ courseMappings' = courseMappings]_vars

\* the list of a course was matched anew to nothing, next to the list of the
\* other course and an excluded course mapping
C20_Witness ==
  /\ mapperCall.op = "autoMatchAssignments"
  /\ mapperCall.ret = << >>
  /\ assignmentMappings[mapperCall.course] = << >>
  /\ \E o \in MapCourses \ {mapperCall.course} : assignmentMappings[o] # << >>
  /\ \E i \in 1..Len(courseMappings) : courseMappings[i].excluded

\* some mapping of the list is a mapping of the course
Mapped(m, canvasCourseId) == \E i \in 1..Len(m) : m[i].canvasCourseId = canvasCourseId

\* C21: excludeCourse / includeCourse on a mapped course return true and set
\* the excluded flag of its mapping to true / false, leaving the ids and names
\* of that mapping and every other mapping as they were; on an unmapped course
\* they return false and change nothing.
C21_ExcludeInclude ==
  [][mapperCall'.op \in {"excludeCourse", "includeCourse"} =>
       LET c == mapperCall'.course IN
       /\ mapperCall'.ret = Mapped(courseMappings, c)
       /\ Len(courseMappings') = Len(courseMappings)
       /\ \A i \in 1..Len(courseMappings) :
            courseMappings'[i] =
              IF courseMappings[i].canvasCourseId = c
              THEN [courseMappings[i] EXCEPT !.excluded = (mapperCall'.op = "excludeCourse")]
              ELSE courseMappings[i]
       /\ assignmentMappings' = assignmentMappings]_vars

\* a course has been included again while the other course stays excluded
C21_Witness ==
  /\ mapperCall.op = "includeCourse"
  /\ mapperCall.ret = TRUE
  /\ Len(courseMappings) = 2
  /\ \E i, k \in 1..2 :
       /\ courseMappings[i].canvasCourseId = mapperCall.course
       /\ ~courseMappings[i].excluded
       /\ courseMappings[k].excluded

\* the positions of the target list whose id none of the mappings has taken
Free(targets, taken) == {j \in 1..Len(targets) : targets[j].id \notin taken}

\* the highest score of a source on the free targets, 0 when there is none
BestScore(row, targets, free) ==
  IF free = {} THEN 0
  ELSE CHOOSE b \in {row[targets[j].name] : j \in free} :
         \A j \in free : row[targets[j].name] <= b

\* the matcher has mapped the i-th source if and only if the best score it has
\* on the targets the earlier sources have left free reaches the threshold, and
\* then to a free target with that score
ThresholdRule(sources, targets, score, matched, sourceOf(_), targetOf(_), threshold) ==
  \A i \in 1..Len(sources) :
    LET taken == {targetOf(matched[k]) :
                    k \in {k \in 1..Len(matched) :
                             \E e \in 1..(i - 1) : sources[e] = sourceOf(matched[k])}}
        free == Free(targets, taken)
        best == BestScore(score[sources[i]], targets, free)
        mine == {k \in 1..Len(matched) : sourceOf(matched[k]) = sources[i]}
    IN /\ (mine # {}) <=> (best >= threshold)
       /\ \A k \in mine : \E j \in free :
            /\ targets[j].id = targetOf(matched[k])
            /\ score[sources[i]][targets[j].name] = best

\* C22: the thresholds are inclusive: autoMatchCourses maps a source course if
\* and only if its best candidate scores at least 0.5 (exactly 0.5 is mapped,
\* anything lower is not), autoMatchAssignments if and only if at least 0.4.
C22_InclusiveThresholds ==
  /\ (call.fn = "autoMatchCourses" /\ mapperCall.op = "autoMatchCourses") =>
       ThresholdRule(call.args[1], call.args[2], call.args[3], mapperCall.ret,
                     LAMBDA x : x.canvasCourseId, LAMBDA x : x.gradescopeCourseId,
                     CourseThreshold)
  /\ (call.fn = "autoMatchAssignments" /\ mapperCall.op = "autoMatchAssignments") =>
       ThresholdRule(call.args[2], call.args[3], call.args[4], mapperCall.ret,
                     LAMBDA x : x.canvasAssignmentId, LAMBDA x : x.gradescopeAssignmentId,
                     AssignmentThreshold)

\* of two source courses the one that scores exactly the threshold on the
\* target has been mapped, the one that scores just below it has not
C22_Witness ==
  /\ call.fn = "autoMatchCourses"
  /\ mapperCall.op = "autoMatchCourses"
  /\ Len(call.args[1]) = 2
  /\ Len(call.args[2]) = 1
  /\ Len(mapperCall.ret) = 1
  /\ call.args[3][mapperCall.ret[1].canvasCourseId][call.args[2][1].name] = CourseThreshold
  /\ \E c \in MapCourses :
       /\ c # mapperCall.ret[1].canvasCourseId
       /\ call.args[3][c][call.args[2][1].name] = CourseThreshold - 1
       /\ call.args[1][1] = c

\* stringSimilarity has returned
Returned == call.fn = "stringSimilarity" /\ call.ret # << >>

\* the string keeps a character when it is normalised: it has a letter or a digit
HasLetterOrDigit(s) == \E i \in 1..Len(s) : s[i] \in AZ09 \cup {"A"}

\* C23 as stated: similarity("", x) is 0 for any string x, the empty string and
\* the strings without a letter or digit included.
C23_EmptyIsZero ==
  (Returned /\ call.args[1] = << >>) => call.ret[1] = Fraction(0, 1)

\* C23 as amended: similarity("", x) is 0 for any x that has a letter or a
\* digit, and 1 for x empty or without any letter or digit.
C23_EmptyAgainstNonEmpty ==
  (Returned /\ call.args[1] = << >>) =>
    call.ret[1] = IF HasLetterOrDigit(call.args[2]) THEN Fraction(0, 1) ELSE Fraction(1, 1)

\* the empty string has been compared with a string of punctuation only
C23_Witness ==
  /\ Returned
  /\ call.args[1] = << >>
  /\ call.args[2] = <<"-", "-">>
  /\ call.ret[1] = Fraction(1, 1)

\* C24: similarity(a, b) = similarity(b, a) for all strings a and b: equal,
\* empty, contained or neither.
C24_Symmetric ==
  Returned =>
    LET other == stringSimilarity(call.args[2], call.args[1])
    IN call.ret[1].num * other.den = other.num * call.ret[1].den

\* a shorter string compared with a longer one it is not part of
C24_Witness ==
  /\ Returned
  /\ call.args[1] = <<"a", "b">>
  /\ call.args[2] = <<"b", "-", "b">>
  /\ call.ret[1] = Fraction(1, 2)

\* C25: when the normalised strings are non-empty, different and one is part
\* of the other, the result is exactly 0.8, whatever the lengths; and every
\* result lies between 0 and 1.
C25_Containment ==
  Returned =>
    LET str1 == normalize(call.args[1])
        str2 == normalize(call.args[2])
    IN /\ (str1 # << >> /\ str2 # << >> /\ str1 # str2
           /\ (includes(str1, str2) \/ includes(str2, str1)))
          => call.ret[1] = Fraction(4, 5)
       /\ call.ret[1].den > 0
       /\ 0 <= call.ret[1].num
       /\ call.ret[1].num <= call.ret[1].den

\* one character found in a string three times as long, which is two edits away
C25_Witness ==
  /\ Returned
  /\ call.args[1] = <<"A">>
  /\ call.args[2] = <<"b", "a", "b">>
  /\ call.ret[1] = Fraction(4, 5)

\* analyze has returned
Analyzed == call.fn = "analyze" /\ call.ret # << >>

\* the types the decision table rules out first
RuledOutTypes == {"quiz", "exam", "attendance", "presentation", "group_project",
                  "discussion"}

\* C26: type rules outrank submission-tag rules: a type among quiz, exam,
\* attendance, presentation, group_project and discussion is reported not
\* automatable whatever the submission tags and the external tool, by the
\* decision table and by the analysis of an assignment.
C26_TypeOutranksTags ==
  /\ (call.fn = "determineAutomatability" /\ call.ret # << >>
      /\ call.args[1] \in RuledOutTypes) => ~call.ret[1].automatable
  /\ (Analyzed /\ call.ret[1].type \in RuledOutTypes) => ~call.ret[1].automatable

\* an assignment named as an exam that takes uploads was found to be a quiz
\* and not automatable
C26_Witness ==
  /\ Analyzed
  /\ call.args[1].name = {"exam"}
  /\ call.args[1].submission_types = {"online_upload"}
  /\ call.ret[1].type = "quiz"
  /\ ~call.ret[1].automatable

\* the reason has the word among its parts
Names(reason, word) == \E i \in 1..Len(reason) : reason[i] = word

\* C27 as stated: every assignment analysed with isExternalTool = true and
\* detected tool Gradescope is automatable; every one with detected tool Piazza
\* is not automatable, with a reason that names Piazza.
C27_ExternalTool ==
  (Analyzed /\ call.ret[1].submission.isExternalTool) =>
    /\ call.ret[1].submission.externalToolName = "Gradescope" => call.ret[1].automatable
    /\ call.ret[1].submission.externalToolName = "Piazza" =>
         (~call.ret[1].automatable /\ Names(call.ret[1].automatableReason, "Piazza"))

\* C27 as amended: the same for the assignments whose type is none of the
\* ruled-out types and whose submission tags include neither none nor
\* on_paper; with Piazza an assignment is not automatable in any case.
C27_ExternalToolRule ==
  (Analyzed /\ call.ret[1].submission.isExternalTool) =>
    /\ (call.ret[1].type \notin RuledOutTypes
        /\ call.args[1].submission_types \cap {"none", "on_paper"} = {}) =>
         /\ call.ret[1].submission.externalToolName = "Gradescope" =>
              call.ret[1].automatable
         /\ call.ret[1].submission.externalToolName = "Piazza" =>
              (~call.ret[1].automatable
               /\ Names(call.ret[1].automatableReason, "Piazza"))
    /\ call.ret[1].submission.externalToolName = "Piazza" => ~call.ret[1].automatable

\* a homework handed in through Piazza was refused with a reason naming Piazza
C27_Witness ==
  /\ Analyzed
  /\ call.args[1].name = {"homework"}
  /\ call.args[1].submission_types = {"external_tool"}
  /\ call.ret[1].type = "homework"
  /\ call.ret[1].submission.externalToolName = "Piazza"
  /\ ~call.ret[1].automatable
  /\ Names(call.ret[1].automatableReason, "Piazza")

\* the description of the assignment mentions Gradescope (in any letter case)
MentionsGradescope(assignment) ==
  includes(lowerCase(Flatten(assignment.description)), <<"grade", "scope">>)

\* the words of a name that decide the type by some name pattern of the classifier
NameKeywords == NameWords \ {"week", "team"}

\* the syllables of a description that some description pattern matches
DescKeywords == {"reflection paper", "essay", "code", "group project", "slides"}

\* C28: submission-type tags (online_quiz, discussion_topic, external_tool with
\* gradescope in the description) outrank name keywords, which outrank
\* description keywords, with unknown as the default: a name with an exam
\* keyword and no such tag gives type quiz, not automatable, for want of
\* real-time responses; an assignment whose submission tag is external_tool
\* and whose description mentions Gradescope gives type homework, tool
\* Gradescope and automatable, whatever its name.
C28_TypePriority ==
  Analyzed =>
    LET assignment == call.args[1]
        tags == assignment.submission_types
        result == call.ret[1]
        tagged == \/ "online_quiz" \in tags
                  \/ "discussion_topic" \in tags
                  \/ ("external_tool" \in tags /\ MentionsGradescope(assignment))
    IN /\ "online_quiz" \in tags => result.type = "quiz"
       /\ ("online_quiz" \notin tags /\ "discussion_topic" \in tags) =>
            result.type = "discussion"
       /\ (tags = {"external_tool"} /\ MentionsGradescope(assignment)) =>
            /\ result.type = "homework"
            /\ result.submission.externalToolName = "Gradescope"
            /\ result.automatable
       /\ (~tagged /\ "exam" \in assignment.name) =>
            /\ result.type = "quiz"
            /\ ~result.automatable
            /\ result.automatableReason =
                 <<"Quizzes and exams require real-time responses">>
       /\ (~tagged /\ assignment.name \cap NameKeywords # {}) =>
            result.type \notin {"code", "unknown"}
       /\ (~tagged /\ assignment.name \cap NameKeywords = {}
           /\ \A i \in 1..Len(assignment.description) :
                \/ assignment.description[i].markup
                \/ assignment.description[i].text[1] \notin DescKeywords) =>
            result.type = "unknown"

\* the Draft object the store holds for the pair, in a sequence (none: << >>)
Stored(h, d, k) == IF d[k] = 0 THEN << >> ELSE <<h[d[k]]>>

\* C29: the store holds one draft per (course, assignment) pair: saveDraft for
\* a pair that has a draft puts a draft with the old createdAt, the time of the
\* call as updatedAt and the new content in its place, and leaves the drafts
\* of the other pairs as they were; updateDraftContent on an existing draft
\* sets its content and resets its status to draft.
C29_DraftIdempotence ==
  [][/\ call'.fn = "saveDraft" =>
         LET k == <<call'.args[1], call'.args[2]>>
             new == Stored(heap', drafts', k)
         IN /\ call'.ret = <<drafts'[k]>>
            /\ Len(new) = 1
            /\ new[1].content = call'.args[3]
            /\ new[1].updatedAt = now'
            /\ new[1].createdAt = IF drafts[k] # 0 THEN heap[drafts[k]].createdAt ELSE now'
            /\ \A o \in GenKeys \ {k} : Stored(heap', drafts', o) = Stored(heap, drafts, o)
     /\ (call'.fn = "updateDraftContent"
         /\ drafts[<<call'.args[1], call'.args[2]>>] # 0) =>
         LET k == <<call'.args[1], call'.args[2]>>
         IN /\ drafts' = drafts
            /\ heap'[drafts[k]].status = "draft"
            /\ heap'[drafts[k]].content = call'.args[3]
            /\ heap'[drafts[k]].createdAt = heap[drafts[k]].createdAt
            /\ \A o \in GenKeys \ {k} : Stored(heap', drafts', o) = Stored(heap, drafts, o)]_vars

\* a draft saved a second time, later and with another content, next to the
\* draft of the other assignment
C29_Witness ==
  /\ call.fn = "saveDraft"
  /\ Len(heap) = 3
  /\ \A k \in GenKeys : drafts[k] # 0
  /\ LET k == <<call.args[1], call.args[2]>> IN
     /\ drafts[k] = 3
     /\ heap[1].assignmentId = call.args[2]
     /\ heap[1].content # heap[3].content
     /\ heap[3].createdAt = heap[1].createdAt
     /\ heap[3].createdAt < heap[3].updatedAt

\* the steps the status of a draft may take
DraftStatusSteps ==
  {<<"draft", "ready_for_review">>, <<"ready_for_review", "approved">>,
   <<"approved", "submitted">>}

\* C30: every change of the status of a draft is one of draft to
\* ready_for_review, ready_for_review to approved, approved to submitted, or a
\* reset to draft, under any sequence of draft and workflow tool calls.
C30_DraftStatusSteps ==
  [][\A i \in 1..Len(heap) :
       heap'[i].status # heap[i].status =>
         \/ <<heap[i].status, heap'[i].status>> \in DraftStatusSteps
         \/ heap'[i].status = "draft"]_vars

\* ------------------------------------------------------------------------
\* Query resolution.

\* findAssignment has returned from a query that parses to the number 17,
\* on a list that holds "Homework 17"
Scenario_B ==
  /\ call.fn = "findAssignment" /\ call.ret # << >>
  /\ parseAssignmentQuery(call.args[2]).assignmentNumber = <<17>>
  /\ Homework17 \in Range(call.args[1])

\* the assignments of the list that carry the number as a word of its own
Numbered(assignments, number) ==
  {a \in Range(assignments) : numPattern(a.name, String(number))}

\* C31 as stated: for a request whose number parses to 17 and a list that
\* holds "Homework 17", findAssignment resolves to "Homework 17" with a
\* score of 60 and a returned confidence of 60.
C31_ScenarioB ==
  Scenario_B =>
    /\ assignmentScore(Homework17, parseAssignmentQuery(call.args[2])) = 60
    /\ call.ret[1] = <<[assignment |-> Homework17, confidence |-> 60]>>

\* C31 as amended: for such a request and list, "Homework 17" scores at
\* least 135 (60 for the number as a word, 50 for its two-digit form, 25 for
\* every search term found in the name; 135 for "hw 17"), an assignment is
\* returned with confidence 100, and it is "Homework 17" when no other
\* assignment of the list carries the number 17.
C31_ScenarioBCapped ==
  Scenario_B =>
    LET score == assignmentScore(Homework17, parseAssignmentQuery(call.args[2])) IN
    /\ score >= 135
    /\ (call.args[2] = <<"h", "w", " ", "1", "7">> => score = 135)
    /\ call.ret[1] # << >>
    /\ call.ret[1][1].confidence = 100
    /\ (Numbered(call.args[1], 17) = {Homework17} => call.ret[1][1].assignment = Homework17)

C31_Witness ==
  /\ Scenario_B
  /\ call.args[2] = <<"h", "w", " ", "1", "7">>
  /\ Len(call.args[1]) = 3
  /\ call.args[1][3] = Homework17
  /\ Numbered(call.args[1], 17) = {Homework17}
  /\ call.ret[1] = <<[assignment |-> Homework17, confidence |-> 100]>>

\* start_assignment has resolved the course of "hw 17 from cs 170" on a list
\* that holds the course CS 170 (one offering of it) and the course EECS 16A
Scenario_A ==
  /\ call.fn = "start_assignment" /\ call.ret # << >>
  /\ call.args[1] = <<"h", "w", " ", "1", "7", " ", "f", "r", "o", "m", " ", "c", "s", " ", "1", "7", "0">>
  /\ {CS170, EECS16A} \subseteq Range(call.args[2])
  /\ CS170Again \notin Range(call.args[2])

\* what the scenario says of the queries, the course code and the result
Resolved_A(score, returned) ==
  /\ "error" \notin DOMAIN call.ret[1]
  /\ call.ret[1].assignmentQuery = <<"h", "w", " ", "1", "7">>
  /\ call.ret[1].courseQuery = <<"c", "s", " ", "1", "7", "0">>
  /\ parseCourseQuery(call.ret[1].courseQuery).courseCode = <<<<"C", "S", " ", "1", "7", "0">>>>
  /\ courseScore(CS170, parseCourseQuery(call.ret[1].courseQuery)) = score
  /\ call.ret[1].courseMatch = <<[course |-> CS170, confidence |-> returned]>>

\* C32 as stated: "hw 17 from cs 170" splits into the assignment query
\* "hw 17" and the course query "cs 170", which parses to the course code
\* "CS 170"; on a list with the CS 170 course and an EECS 16A course,
\* findCourse scores the CS 170 course at 100 and returns it.
C32_ScenarioA == Scenario_A => Resolved_A(100, 100)

\* C32 as amended: the same split and course code; findCourse scores the
\* CS 170 course at 240 (100 for the code in the code, 100 for the search
\* terms "cs" and "170" in code and name, 40 for the code in the name) and
\* returns it with confidence 100.
C32_ScenarioAScore == Scenario_A => Resolved_A(240, 100)

C32_Witness ==
  /\ Scenario_A
  /\ call.args[2] = <<EECS16A, CS170>>
  /\ call.ret[1].courseMatch = <<[course |-> CS170, confidence |-> 100]>>

\* the scores of the candidates of a returned call of findCourse or
\* findAssignment, in list order
Scores ==
  [i \in 1..Len(call.args[1]) |->
     IF call.fn = "findCourse"
     THEN courseScore(call.args[1][i], parseCourseQuery(call.args[2]))
     ELSE assignmentScore(call.args[1][i], parseAssignmentQuery(call.args[2]))]

\* the first candidate in list order that no candidate outscores
First(scores) ==
  CHOOSE i \in 1..Len(scores) :
    /\ \A k \in 1..Len(scores) : scores[k] <= scores[i]
    /\ \A k \in 1..(i - 1) : scores[k] < scores[i]

\* the best candidate or nothing: the first candidate of maximal score with
\* confidence min(score, 100) if that score reaches the threshold, else null
BestOrNothing(member, threshold) ==
  IF Scores # << >> /\ Scores[First(Scores)] >= threshold
  THEN /\ call.ret[1] # << >>
       /\ call.ret[1][1][member] = call.args[1][First(Scores)]
       /\ call.ret[1][1].confidence = Min(Scores[First(Scores)], 100)
       /\ call.ret[1][1].confidence \in threshold..100
  ELSE call.ret[1] = << >>

\* C36: findCourse returns the first candidate in list order having the
\* maximal score if that score is >= 20, with confidence min(score, 100),
\* and null otherwise; findAssignment does the same with threshold 25; so
\* every returned confidence lies in 20..100 for courses and in 25..100 for
\* assignments.
C36_BestOrNothing ==
  /\ (call.fn = "findCourse" /\ call.ret # << >> => BestOrNothing("course", 20))
  /\ (call.fn = "findAssignment" /\ call.ret # << >> => BestOrNothing("assignment", 25))

\* two offerings tie at the top and the earlier one is returned, below the cap
C36_Witness ==
  /\ call.fn = "findCourse" /\ call.ret # << >>
  /\ Len(Scores) = 3
  /\ First(Scores) = 2
  /\ Scores[3] = Scores[2]
  /\ Scores[2] \in 20..99
  /\ call.ret[1] = <<[course |-> call.args[1][2], confidence |-> Scores[2]]>>

\* ------------------------------------------------------------------------
\* The matchers against the greedy matcher of the specification.

\* the choices of the reference greedy matcher: pick[i] is the place in the
\* target list of the target the i-th source gets, 0 when it gets none.  The
\* i-th source gets the earliest of the highest-scoring targets that meet the
\* threshold among those whose id no earlier source has got.
Greedy(sources, targets, score, threshold) ==
  CHOOSE pick \in [1..Len(sources) -> 0..Len(targets)] :
    \A i \in 1..Len(sources) :
      LET used == {targets[pick[e]].id : e \in {e \in 1..(i - 1) : pick[e] # 0}}
          open == {j \in 1..Len(targets) :
                     /\ targets[j].id \notin used
                     /\ score[sources[i]][targets[j].name] >= threshold}
          top == {j \in open : \A k \in open :
                    score[sources[i]][targets[k].name] <= score[sources[i]][targets[j].name]}
      IN IF open = {} THEN pick[i] = 0
         ELSE pick[i] \in top /\ \A j \in top : pick[i] <= j

\* the sources that got a target (got = TRUE) or none, in input order
RECURSIVE Picked(_, _, _, _)
Picked(sources, pick, got, i) ==
  IF i > Len(sources) THEN << >>
  ELSE (IF (pick[i] # 0) = got THEN <<i>> ELSE << >>) \o Picked(sources, pick, got, i + 1)

\* the result equals that of the reference matcher: the matched pairs in
\* source order, the sources without a target in source order
EqualsGreedy(sources, targets, score, threshold, result, sourceOf(_), targetOf(_)) ==
  LET pick == Greedy(sources, targets, score, threshold)
      hits == Picked(sources, pick, TRUE, 1)
      misses == Picked(sources, pick, FALSE, 1)
  IN /\ Len(result.matched) = Len(hits)
     /\ \A k \in 1..Len(hits) :
          /\ sourceOf(result.matched[k]) = sources[hits[k]]
          /\ targetOf(result.matched[k]) = targets[pick[hits[k]]].id
     /\ result.unmatched = [k \in 1..Len(misses) |-> sources[misses[k]]]
     /\ \A i \in 1..Len(sources) :
          Cardinality({k \in 1..Len(result.matched) :
                         sourceOf(result.matched[k]) = sources[i]})
          + Cardinality({k \in 1..Len(result.unmatched) :
                           result.unmatched[k] = sources[i]}) = 1

Decided == call.fn = "determineAutomatability" /\ call.ret # << >>

\* the conditions of the decision table, in its order; the last always holds
Applies(rule, type, submission) ==
  CASE rule = 1 -> type \in {"quiz", "exam"}
    [] rule = 2 -> type = "attendance"
    [] rule = 3 -> type = "presentation"
    [] rule = 4 -> type = "group_project"
    [] rule = 5 -> type = "discussion"
    [] rule = 6 -> "none" \in submission.types
    [] rule = 7 -> "on_paper" \in submission.types
    [] rule = 8 -> submission.isExternalTool
    [] rule = 9 -> type \in {"essay", "reflection"}
    [] rule = 10 -> type \in {"code", "homework", "lab"}
    [] rule = 11 -> submission.types \cap {"online_upload", "online_text_entry"} # {}
    [] rule = 12 -> TRUE

\* the first rule of the table that applies
FirstRule(type, submission) ==
  CHOOSE rule \in 1..12 :
    /\ Applies(rule, type, submission)
    /\ \A earlier \in 1..(rule - 1) : ~Applies(earlier, type, submission)

\* C34: automatability equals the first-match-wins decision table for every
\* combination of type, submission tags and detected tool: rules 1 to 7 give
\* false, the external tool rule true only for Gradescope and else false with
\* the tool named, rules 9 to 11 true, otherwise false for unknown submission
\* requirements.
C34_DecisionTable ==
  Decided =>
    LET rule == FirstRule(call.args[1], call.args[2])
        tool == call.args[2].externalToolName
        verdict == call.ret[1]
    IN /\ verdict.automatable =
            (rule \in 9..11 \/ (rule = 8 /\ tool = "Gradescope"))
       /\ (rule = 8 /\ tool # "Gradescope" =>
             Names(verdict.reason, IF tool = "undefined" THEN "unknown" ELSE tool))
       /\ (rule = 12 => verdict.reason = <<"Unknown submission requirements">>)

\* an automatable type and an upload tag, but the paper rule comes first
C34_Witness ==
  /\ Decided
  /\ call.args[1] = "homework"
  /\ call.args[2].types = {"on_paper", "online_upload"}
  /\ FirstRule(call.args[1], call.args[2]) = 7
  /\ ~call.ret[1].automatable

Informational(sid, fields, action) ==
  /\ \A f \in DOMAIN sessions[sid] \ (fields \cup {"logs"}) :
       sessions'[sid][f] = sessions[sid][f]
  /\ sessions'[sid].status = sessions[sid].status
  /\ Logged(sessions[sid].logs, sessions'[sid].logs, action, TRUE)
  /\ OthersUnchanged(sid)
  /\ UNCHANGED <<heap, drafts>>

\* the step has appended an entry of the given action to the log of session
\* sid, as every call of the method that logs it does
Appended(sid, action) ==
  /\ Len(sessions') = Len(sessions)
  /\ Len(sessions'[sid].logs) = Len(sessions[sid].logs) + 1
  /\ sessions'[sid].logs[Len(sessions'[sid].logs)].action = action

\* C35: setCourse, setAssignment, setAnalysis and setSolutionContext leave the
\* session status unchanged, write only their own fields of the session and
\* append exactly one successful log entry; createSession yields status
\* in_progress with exactly one log entry; setDraft sets status
\* awaiting_review.
C35_InformationalSetters ==
  [][/\ \A sid \in 1..Len(sessions) :
          /\ Appended(sid, "resolve_course") =>
               \A course \in Courses, dt \in Elapsed :
                 OrchSetCourse(sid, course, dt) =>
                   /\ Informational(sid, {"canvasCourse"}, "resolve_course")
                   /\ sessions'[sid].canvasCourse = course
          /\ Appended(sid, "resolve_assignment") =>
               \A assignment \in Assignments, dt \in Elapsed :
                 OrchSetAssignment(sid, assignment, dt) =>
                   /\ Informational(sid, {"canvasAssignment"}, "resolve_assignment")
                   /\ sessions'[sid].canvasAssignment = assignment
          /\ Appended(sid, "analyze_assignment") =>
               \A analysis \in {"automatable", "not_automatable"}, dt \in Elapsed :
                 OrchSetAnalysis(sid, analysis, dt) =>
                   /\ Informational(sid, {"analysis"}, "analyze_assignment")
                   /\ sessions'[sid].analysis = analysis
          /\ Appended(sid, "prepare_solution") =>
               \A context \in Formats, dt \in Elapsed :
                 OrchSetSolutionContext(sid, context, dt) =>
                   /\ Informational(sid, {"solutionContext", "generatedPrompt"},
                                    "prepare_solution")
                   /\ sessions'[sid].solutionContext = context
          /\ Appended(sid, "save_draft") =>
               \A draft \in 1..Len(heap), dt \in Elapsed :
                 OrchSetDraft(sid, draft, dt) =>
                   /\ sessions'[sid].status = "awaiting_review"
                   /\ sessions'[sid].draft = draft
     /\ Len(sessions') = Len(sessions) + 1 =>
          \A request \in {"parseable"}, dt \in Elapsed :
            OrchCreateSession(request, dt) =>
              /\ sessions'[Len(sessions')].status = "in_progress"
              /\ Len(sessions'[Len(sessions')].logs) = 1
              /\ \A o \in 1..Len(sessions) : sessions'[o] = sessions[o]]_vars

\* a session that awaits review has had an analysis that rules automation out
\* set as its last step and still awaits review, next to a session just created
C35_Witness ==
  /\ Len(sessions) = 2
  /\ sessions[1].status = "awaiting_review"
  /\ sessions[1].analysis = "not_automatable"
  /\ sessions[1].logs[Len(sessions[1].logs)].action = "analyze_assignment"
  /\ sessions[2].status = "in_progress"
  /\ Len(sessions[2].logs) = 1

\* ------------------------------------------------------------------------
\* Approval and content changes.

\* the status of the draft session sid holds has turned approved in this step
Reapproved(sid) ==
  /\ heap'[sessions'[sid].draft].status = "approved"
  /\ heap[sessions[sid].draft].status # "approved"

\* C37: when the content of the draft a session holds changes after it was
\* approved (by update_draft or by save_and_review), the status of the draft
\* the session holds is no longer approved; and while it is not approved,
\* submit_assignment uploads nothing for the session, and only a call of
\* approve_draft on the draft's course and assignment makes it approved.
C37_ApprovalInvalidated ==
  [][\A sid \in 1..Len(sessions) :
       sessions[sid].draft # 0 =>
         LET before == heap[sessions[sid].draft]
             after == heap'[sessions'[sid].draft]
         IN /\ (before.status = "approved" /\ after.content # before.content)
                 => after.status = "draft"
            /\ before.status # "approved" =>
                 /\ uploads' # uploads => uploads'[Len(uploads')].session # sid
                 /\ Reapproved(sid) =>
                      \E dt \in Elapsed :
                        approve_draft(before.courseId, before.assignmentId, dt)]_vars

\* the session holds a new draft of other content in place of the one that
\* was approved: the new one is not approved and nothing has been uploaded
C37_Witness ==
  /\ Len(sessions) = 1
  /\ Len(heap) = 2
  /\ sessions[1].draft = 2
  /\ heap[1].status = "approved"
  /\ heap[2].status = "draft"
  /\ heap[2].content # heap[1].content
  /\ heap[2].updatedAt >= heap[2].createdAt
  /\ uploads = << >>

\* ------------------------------------------------------------------------
\* How long an exclusion lasts.

\* the course has a mapping and is excluded, as after excludeCourse has
\* returned true for it
IsExcluded(m, c) ==
  /\ Mapped(m, c)
  /\ \A i \in 1..Len(m) : m[i].canvasCourseId = c => m[i].excluded

\* the course has a mapping among getActiveCourseMappings
Active(m, c) == Mapped(getActiveCourseMappings(m), c)

\* the step is a call of the method on the course
Calls(op, c) == mapperCall'.op = op /\ mapperCall'.course = c

\* C38: once excludeCourse(c) has returned true, the mapping of c
\* stays excluded (absent from getActiveCourseMappings) until includeCourse(c)
\* is called, whatever other methods of the mapping store run in between.
C38_ExclusionPersists ==
  [][\A c \in MapCourses :
       (IsExcluded(courseMappings, c) /\ ~Calls("includeCourse", c))
         => ~Active(courseMappings', c)]_vars

\* ------------------------------------------------------------------------
\* One upload per approval.

\* the step is a submit_assignment call on the session whose upload succeeds
Succeeds(sid) ==
  /\ submitRefusal(sid) = "none"
  /\ \E in \in SubmitInputs, dt \in Elapsed :
       /\ submitOutcome(sid, in.file_path, in.userFile, in.gsRes, in.upRes, in.url).result = "ok"
       /\ submit_assignment(sid, in.file_path, in.userFile, in.gsRes, in.upRes, in.url, dt)

\* the step is an approve_draft call
Approves == \E k \in Keys, dt \in Elapsed : approve_draft(k[1], k[2], dt)

\* the draft the session holds
HeldDraft(ss, h, sid) == h[ss[sid].draft]

\* the step uploads a file for the session
UploadsFor(sid) ==
  /\ uploads' # uploads
  /\ uploads'[Len(uploads')].session = sid

\* the successful submissions in a log
Submissions(logs) ==
  Cardinality({i \in 1..Len(logs) :
                 logs[i].action = "submit_assignment" /\ logs[i].details = "Submitted successfully"})

\* C39: a session never has two successful uploads without an approval in
\* between: a successful submit_assignment leaves the draft of the session
\* submitted, and while the draft a session holds is not approved no step
\* uploads for the session and only an approve_draft call makes the draft
\* approved again.
C39_OneUploadPerApproval ==
  [][\A sid \in 1..Len(sessions) :
       /\ UploadsFor(sid) =>
            /\ Gate(sid)
            /\ Succeeds(sid) =>
                 /\ HeldDraft(sessions', heap', sid).status = "submitted"
                 /\ Submissions(sessions'[sid].logs) = Submissions(sessions[sid].logs) + 1
       /\ ~UploadsFor(sid) =>
            Submissions(sessions'[sid].logs) = Submissions(sessions[sid].logs)
       /\ (/\ sessions'[sid].draft # 0
           /\ HeldDraft(sessions', heap', sid).status = "approved"
           /\ ~Gate(sid)) => Approves]_vars

\* a session was submitted, its draft was approved again and a second
\* submit_assignment uploaded it with success
C39_Witness ==
  /\ Len(sessions) = 1
  /\ Submissions(sessions[1].logs) = 2
  /\ Len(uploads) = 2
  /\ uploads[1].session = 1 /\ uploads[2].session = 1
  /\ HeldDraft(sessions, heap, 1).status = "submitted"

====
